---- MODULE Spec2Model ----
(***************************************************************************)
(* A model of OpenAlgo_xlwings_lite/main.py: the process-wide              *)
(* configuration (OpenAlgoConfig, ResponseConfig, DebugLog), the transport *)
(* (post_request, post_request_with_fallback), the response formatter      *)
(* (process_api_response and what it calls) and the spreadsheet functions  *)
(* built on them.                                                          *)
(*                                                                         *)
(* Python values are records tagged by their type in the field t; text is  *)
(* a TLA+ string, read one character at a time with SubSeq.  A Python call *)
(* that can raise yields a record whose field exc names the exception ("" *)
(* when it returned).                                                      *)
(***************************************************************************)
EXTENDS Integers, Sequences, FiniteSets, TLC

VARIABLES
    api_key,            \* OpenAlgoConfig.api_key
    version,            \* OpenAlgoConfig.version
    host_url,           \* OpenAlgoConfig.host_url
    force_http,         \* OpenAlgoConfig.force_http
    preferred_format,   \* ResponseConfig.preferred_format
    request_count,      \* DebugLog.request_count
    last_request,       \* DebugLog.last_request
    last_response,      \* DebugLog.last_response
    tz_offset,          \* the host's local time zone, seconds east of UTC
    call,               \* the last operation and its arguments
    posts,              \* the connection attempts of the last operation
    result              \* what the last operation returned or raised

vars == <<api_key, version, host_url, force_http, preferred_format,
          request_count, last_request, last_response, tz_offset,
          call, posts, result>>

----------------------------------------------------------------------------
(* Text: the str methods the program uses.                                 *)

\* The printable ASCII characters in code-point order: 32 (space) to 95, and
\* 97 to 126 (a string of the module cannot hold the grave accent, 96).
AsciiLow ==
    " !\"#$%&'()*+,-./0123456789:;<=>?@ABCDEFGHIJKLMNOPQRSTUVWXYZ[\\]^_"
AsciiHigh == "abcdefghijklmnopqrstuvwxyz{|}~"

LowerLetters == "abcdefghijklmnopqrstuvwxyz"
UpperLetters == "ABCDEFGHIJKLMNOPQRSTUVWXYZ"
Digits == "0123456789"

\* s[i] of Python, counted from 1.
Chr(s, i) == SubSeq(s, i, i)

\* The position of character c in the text s, 0 when it is not there.
IndexIn(c, s) ==
    IF \E i \in 1..Len(s) : Chr(s, i) = c
    THEN CHOOSE i \in 1..Len(s) : Chr(s, i) = c
    ELSE 0

\* ord(c)
Ord(c) ==
    IF IndexIn(c, AsciiLow) > 0 THEN 31 + IndexIn(c, AsciiLow)
    ELSE 96 + IndexIn(c, AsciiHigh)

IsDigitChar(c) == IndexIn(c, Digits) > 0
IsAlphaChar(c) == IndexIn(c, LowerLetters) > 0 \/ IndexIn(c, UpperLetters) > 0

LowerChar(c) ==
    IF IndexIn(c, UpperLetters) > 0
    THEN Chr(LowerLetters, IndexIn(c, UpperLetters))
    ELSE c

UpperChar(c) ==
    IF IndexIn(c, LowerLetters) > 0
    THEN Chr(UpperLetters, IndexIn(c, LowerLetters))
    ELSE c

RECURSIVE StrLower(_)
\* s.lower()
StrLower(s) ==
    IF s = "" THEN "" ELSE LowerChar(Head(s)) \o StrLower(Tail(s))

\* s.isdigit()
StrIsDigit(s) == s # "" /\ \A i \in 1..Len(s) : IsDigitChar(Chr(s, i))

\* s.startswith(p)
StartsWith(s, p) == Len(s) >= Len(p) /\ SubSeq(s, 1, Len(p)) = p

\* s.endswith(p)
EndsWith(s, p) ==
    Len(s) >= Len(p) /\ SubSeq(s, Len(s) - Len(p) + 1, Len(s)) = p

\* p in s
StrContains(s, p) ==
    \E i \in 1..(Len(s) - Len(p) + 1) : SubSeq(s, i, i + Len(p) - 1) = p

RECURSIVE StrReplace(_, _, _)
\* s.replace(old, new), every non-overlapping occurrence from the left
StrReplace(s, old, new) ==
    IF s = "" THEN ""
    ELSE IF StartsWith(s, old)
         THEN new \o StrReplace(SubSeq(s, Len(old) + 1, Len(s)), old, new)
         ELSE Head(s) \o StrReplace(Tail(s), old, new)

RECURSIVE StrCount(_, _)
\* s.count(c) for a one-character c
StrCount(s, c) ==
    IF s = "" THEN 0
    ELSE (IF Head(s) = c THEN 1 ELSE 0) + StrCount(Tail(s), c)

RECURSIVE LStrip(_)
LStrip(s) == IF s # "" /\ Head(s) = " " THEN LStrip(Tail(s)) ELSE s

RECURSIVE RStripChar(_, _)
\* s.rstrip(c) for a one-character c
RStripChar(s, c) ==
    IF s # "" /\ Chr(s, Len(s)) = c
    THEN RStripChar(SubSeq(s, 1, Len(s) - 1), c)
    ELSE s

\* A variant of StrStrip that keeps the surrounding whitespace
StrStrip_asis(s) == s

\* s.strip(): the model's only whitespace is the space
StrStrip(s) == LStrip(RStripChar(s, " "))

\* s[-n:]
LastChars(s, n) == IF Len(s) <= n THEN s ELSE SubSeq(s, Len(s) - n + 1, Len(s))

RECURSIVE TitleFrom(_, _)
TitleFrom(s, prevAlpha) ==
    IF s = "" THEN ""
    ELSE (IF prevAlpha THEN LowerChar(Head(s)) ELSE UpperChar(Head(s)))
         \o TitleFrom(Tail(s), IsAlphaChar(Head(s)))

\* s.title(): a letter after a non-letter is upper case, after a letter lower
StrTitle(s) == TitleFrom(s, FALSE)

RECURSIVE LastSegment(_)
\* s.split('/')[-1]
LastSegment(s) ==
    IF \E i \in 1..Len(s) : Chr(s, i) = "/"
    THEN LastSegment(SubSeq(s, IndexIn("/", s) + 1, Len(s)))
    ELSE s

\* a < b for str: by code point, a proper prefix first
RECURSIVE StrLess(_, _)
StrLess(a, b) ==
    IF b = "" THEN FALSE
    ELSE IF a = "" THEN TRUE
    ELSE IF Head(a) = Head(b) THEN StrLess(Tail(a), Tail(b))
    ELSE Ord(Head(a)) < Ord(Head(b))

----------------------------------------------------------------------------
(* Python values.  A decoded JSON value is one of these records.  A float   *)
(* is held exactly, to four decimal places: sign, whole part w and fr       *)
(* ten-thousandths; k is "fin", "inf" or "nan" (json.loads reads 1e999 and  *)
(* Infinity as inf, NaN as nan).  A dict keeps its insertion order: items   *)
(* is the sequence of its (key, value) pairs, the keys distinct.            *)

PyNone == [t |-> "None"]
PyStr(s) == [t |-> "str", s |-> s]
PyInt(n) == [t |-> "int", n |-> n]
PyBool(b) == [t |-> "bool", b |-> b]
PyFloat(neg, w, fr) == [t |-> "float", k |-> "fin", neg |-> neg, w |-> w, fr |-> fr]
PyInf(neg) == [t |-> "float", k |-> "inf", neg |-> neg, w |-> 0, fr |-> 0]
PyNan == [t |-> "float", k |-> "nan", neg |-> FALSE, w |-> 0, fr |-> 0]
PyDict(items) == [t |-> "dict", items |-> items]
PyList(l) == [t |-> "list", l |-> l]
Item(k, v) == [k |-> k, v |-> v]

\* list(d.keys())
Keys(d) == [i \in 1..Len(d.items) |-> d.items[i].k]

\* key in d
HasKey(d, key) == \E i \in 1..Len(d.items) : d.items[i].k = key

\* d[key], for a key of d
Lookup(d, key) == d.items[CHOOSE i \in 1..Len(d.items) : d.items[i].k = key].v

\* d.get(key, default)
DictGet(d, key, default) == IF HasKey(d, key) THEN Lookup(d, key) ELSE default

\* A variant of Truthy that takes every value for true
Truthy_always(v) == TRUE

\* A variant of Truthy that takes only None for falsy, as "data is not
\* None" would
Truthy_notNone(v) == v.t # "None"

\* bool(v): None, False, zero, and the empty str, list and dict are falsy
Truthy(v) ==
    CASE v.t = "None" -> FALSE
      [] v.t = "bool" -> v.b
      [] v.t = "int" -> v.n # 0
      [] v.t = "float" -> ~(v.k = "fin" /\ v.w = 0 /\ v.fr = 0)
      [] v.t = "str" -> v.s # ""
      [] v.t = "list" -> v.l # <<>>
      [] v.t = "dict" -> v.items # <<>>

\* isinstance(v, (int, float)): bool is a subclass of int
IsNumber(v) == v.t \in {"int", "float", "bool"}

----------------------------------------------------------------------------
(* Numbers: float(), int(), str() and the format specifications .2f, .4f,  *)
(* ,.2f and , of the f-strings.                                            *)

Abs(n) == IF n < 0 THEN -n ELSE n

\* A float result: exc is "" or the exception float() raised.
Num(k, neg, w, fr) == [exc |-> "", k |-> k, neg |-> neg, w |-> w, fr |-> fr]
NumRaise(e) == [exc |-> e, k |-> "nan", neg |-> FALSE, w |-> 0, fr |-> 0]

RECURSIVE DigitsToNat(_)
\* the value of a text of decimal digits
DigitsToNat(s) ==
    IF s = "" THEN 0
    ELSE 10 * DigitsToNat(SubSeq(s, 1, Len(s) - 1))
         + (IndexIn(Chr(s, Len(s)), Digits) - 1)

\* The ten-thousandths of a fraction text of up to four digits.
FracToNat(s) == DigitsToNat(SubSeq(s \o "0000", 1, 4))

\* float(s) for an unsigned text without surrounding blanks: inf, infinity,
\* nan in any case, or digits with an optional point (at most four digits
\* after it, the model's precision); anything else is a ValueError.
ParseUnsigned(s, neg) ==
    LET allDigits(x) == \A i \in 1..Len(x) : IsDigitChar(Chr(x, i))
        \* low: s in lower case; ip, fp: the digits before and after the point
        parts(low, ip, fp) ==
            IF low \in {"inf", "infinity"} THEN Num("inf", neg, 0, 0)
            ELSE IF low = "nan" THEN Num("nan", FALSE, 0, 0)
            ELSE IF /\ allDigits(ip \o fp)
                    /\ Len(ip) + Len(fp) > 0 /\ Len(fp) <= 4
                 THEN Num("fin", neg, DigitsToNat(ip), FracToNat(fp))
                 ELSE NumRaise("ValueError")
        \* dot: the place of the first point in s, 0 without one
        split(dot) ==
            parts(StrLower(s),
                  IF dot = 0 THEN s ELSE SubSeq(s, 1, dot - 1),
                  IF dot = 0 THEN "" ELSE SubSeq(s, dot + 1, Len(s)))
    IN  split(IndexIn(".", s))

\* float(s) for a str
ParseFloat(s) ==
    LET signed(x) ==
            ParseUnsigned(IF x # "" /\ Head(x) \in {"-", "+"} THEN Tail(x) ELSE x,
                          x # "" /\ Head(x) = "-")
    IN  signed(StrStrip(s))

\* float(v)
ToFloat(v) ==
    CASE v.t = "int" -> Num("fin", v.n < 0, Abs(v.n), 0)
      [] v.t = "bool" -> Num("fin", FALSE, IF v.b THEN 1 ELSE 0, 0)
      [] v.t = "float" -> Num(v.k, v.neg, v.w, v.fr)
      [] v.t = "str" -> ParseFloat(v.s)
      [] OTHER -> NumRaise("TypeError")

\* An int result: exc is "" or the exception int() raised.
IntOk(n) == [exc |-> "", n |-> n]
IntRaise(e) == [exc |-> e, n |-> 0]

\* int(x) for a float x: truncation toward zero
FloatToInt(x) ==
    CASE x.k = "inf" -> IntRaise("OverflowError")
      [] x.k = "nan" -> IntRaise("ValueError")
      [] OTHER -> IntOk(IF x.neg THEN -x.w ELSE x.w)

\* x != 0 for a float x
NonZero(x) == ~(x.k = "fin" /\ x.w = 0 /\ x.fr = 0)

\* x >= n for a float x and a natural n (nan compares false)
FloatGe(x, n) ==
    CASE x.k = "nan" -> FALSE
      [] x.k = "inf" -> ~x.neg
      [] OTHER -> IF x.neg THEN n = 0 /\ x.w = 0 /\ x.fr = 0 ELSE x.w >= n

Pad(s, n) == SubSeq("0000", 1, n - Len(s)) \o s

RECURSIVE Grouped(_)
\* f"{n:,}" for a natural n
Grouped(n) ==
    IF n < 1000 THEN ToString(n)
    ELSE Grouped(n \div 1000) \o "," \o Pad(ToString(n % 1000), 3)

\* The hundredths of fr ten-thousandths rounded as the binary float rounds:
\* to nearest, and a tie (exact only when 625 divides fr) to even; 100 is a
\* carry into the whole part.
Hundredths(fr) ==
    LET q == fr \div 100
        r == fr % 100
        up == r > 50 \/ (r = 50 /\ q % 2 = 1)
    IN  q + (IF up THEN 1 ELSE 0)

\* f"{x:.2f}" and, with grouping, f"{x:,.2f}"
Fixed2(x, grouping) ==
    LET h == Hundredths(x.fr)
        whole == x.w + h \div 100
    IN  CASE x.k = "nan" -> "nan"
          [] x.k = "inf" -> (IF x.neg THEN "-inf" ELSE "inf")
          [] OTHER ->
               (IF x.neg THEN "-" ELSE "")
               \o (IF grouping THEN Grouped(whole) ELSE ToString(whole))
               \o "." \o Pad(ToString(h % 100), 2)

\* f"{x:.4f}"
Fixed4(x) ==
    CASE x.k = "nan" -> "nan"
      [] x.k = "inf" -> (IF x.neg THEN "-inf" ELSE "inf")
      [] OTHER ->
           (IF x.neg THEN "-" ELSE "") \o ToString(x.w)
           \o "." \o Pad(ToString(x.fr), 4)

\* A variant of GroupedInt that writes no thousands separators
GroupedInt_plain(n) == ToString(n)

\* f"{n:,}" for an int n
GroupedInt(n) == IF n < 0 THEN "-" \o Grouped(-n) ELSE Grouped(n)

RECURSIVE StripZeros(_)
StripZeros(s) ==
    IF Len(s) > 1 /\ Chr(s, Len(s)) = "0"
    THEN StripZeros(SubSeq(s, 1, Len(s) - 1))
    ELSE s

\* repr(x) for a float x below 1e16
FloatRepr(x) ==
    CASE x.k = "nan" -> "nan"
      [] x.k = "inf" -> (IF x.neg THEN "-inf" ELSE "inf")
      [] OTHER ->
           (IF x.neg THEN "-" ELSE "") \o ToString(x.w)
           \o "." \o StripZeros(Pad(ToString(x.fr), 4))

RECURSIVE Repr(_, _)
\* str(v) when top, repr(v) inside a container (a str is quoted there)
Repr(v, top) ==
    LET RECURSIVE JoinList(_, _)
        JoinList(l, i) ==
            IF i > Len(l) THEN ""
            ELSE (IF i > 1 THEN ", " ELSE "") \o Repr(l[i], FALSE)
                 \o JoinList(l, i + 1)
        RECURSIVE JoinDict(_, _)
        JoinDict(it, i) ==
            IF i > Len(it) THEN ""
            ELSE (IF i > 1 THEN ", " ELSE "")
                 \o "'" \o it[i].k \o "': " \o Repr(it[i].v, FALSE)
                 \o JoinDict(it, i + 1)
    IN  CASE v.t = "None" -> "None"
          [] v.t = "bool" -> (IF v.b THEN "True" ELSE "False")
          [] v.t = "int" -> ToString(v.n)
          [] v.t = "float" -> FloatRepr(v)
          [] v.t = "str" -> (IF top THEN v.s ELSE "'" \o v.s \o "'")
          [] v.t = "list" -> "[" \o JoinList(v.l, 1) \o "]"
          [] v.t = "dict" -> "{" \o JoinDict(v.items, 1) \o "}"

\* str(v)
Str(v) == Repr(v, TRUE)

----------------------------------------------------------------------------
(* ResponseConfig: the static tables of the formatter.                     *)

\* ResponseConfig.field_labels: field name -> label (the labels plain text)
field_labels == PyDict(<<
    Item("ltp", "Last Trade Price"),
    Item("prev_close", "Previous Close"),
    Item("pnl", "P&L"),
    Item("pnl_percent", "P&L %"),
    Item("orderid", "Order ID"),
    Item("tradingsymbol", "Trading Symbol"),
    Item("availablecash", "Available Cash"),
    Item("utiliseddebits", "Used Debits"),
    Item("utilisedpayout", "Used Payout"),
    Item("m2mrealized", "Realized M2M"),
    Item("m2munrealized", "Unrealized M2M"),
    Item("collateral", "Collateral Value"),
    Item("payin", "Pay In Amount"),
    Item("payout", "Pay Out Amount"),
    Item("branchcode", "Branch Code"),
    Item("clientcode", "Client Code"),
    Item("triggerprice", "Trigger Price"),
    Item("averageprice", "Average Price"),
    Item("remainingquantity", "Remaining Qty"),
    Item("filledquantity", "Filled Qty"),
    Item("unfilledshares", "Unfilled Qty"),
    Item("totalbuyquantity", "Total Buy Qty"),
    Item("totalsellquantity", "Total Sell Qty"),
    Item("pendingquantity", "Pending Qty"),
    Item("rejectedquantity", "Rejected Qty"),
    Item("cancelledquantity", "Cancelled Qty"),
    Item("disclosed_quantity", "Disclosed Qty"),
    Item("order_id", "Order ID"),
    Item("parent_order_id", "Parent Order ID"),
    Item("order_status", "Order Status"),
    Item("order_type", "Order Type"),
    Item("order_side", "Order Side"),
    Item("bid_price", "Bid Price"),
    Item("ask_price", "Ask Price"),
    Item("bid_qty", "Bid Quantity"),
    Item("ask_qty", "Ask Quantity"),
    Item("bid_orders", "Bid Orders"),
    Item("ask_orders", "Ask Orders"),
    Item("volume", "Volume"),
    Item("turnover", "Turnover"),
    Item("last_price", "Last Price"),
    Item("last_qty", "Last Quantity"),
    Item("total_traded_volume", "Total Volume"),
    Item("total_traded_value", "Total Value"),
    Item("lower_circuit", "Lower Circuit"),
    Item("upper_circuit", "Upper Circuit"),
    Item("percent_change", "Change %"),
    Item("price_change", "Price Change"),
    Item("day_high", "Day High"),
    Item("day_low", "Day Low"),
    Item("year_high", "52W High"),
    Item("year_low", "52W Low"),
    Item("open", "Open"),
    Item("high", "High"),
    Item("low", "Low"),
    Item("close", "Close"),
    Item("prev_open", "Prev Open"),
    Item("prev_high", "Prev High"),
    Item("prev_low", "Prev Low"),
    Item("strikeprice", "Strike Price"),
    Item("strike_price", "Strike Price"),
    Item("optiontype", "Option Type"),
    Item("option_type", "Option Type"),
    Item("expiry", "Expiry Date"),
    Item("expiry_date", "Expiry Date"),
    Item("days_to_expiry", "Days to Expiry"),
    Item("underlying", "Underlying"),
    Item("underlying_price", "Underlying Price"),
    Item("implied_volatility", "IV"),
    Item("delta", "Delta"),
    Item("gamma", "Gamma"),
    Item("theta", "Theta"),
    Item("vega", "Vega"),
    Item("rho", "Rho"),
    Item("net_quantity", "Net Quantity"),
    Item("buy_quantity", "Buy Quantity"),
    Item("sell_quantity", "Sell Quantity"),
    Item("buy_value", "Buy Value"),
    Item("sell_value", "Sell Value"),
    Item("buy_price", "Buy Price"),
    Item("sell_price", "Sell Price"),
    Item("unrealized_pnl", "Unrealized P&L"),
    Item("realized_pnl", "Realized P&L"),
    Item("mtm", "Mark to Market"),
    Item("day_pnl", "Day P&L"),
    Item("day_change", "Day Change"),
    Item("day_change_percent", "Day Change %"),
    Item("exchange", "Exchange"),
    Item("segment", "Segment"),
    Item("instrument", "Instrument"),
    Item("instrument_type", "Instrument Type"),
    Item("lot_size", "Lot Size"),
    Item("tick_size", "Tick Size"),
    Item("isin", "ISIN"),
    Item("symbol", "Symbol"),
    Item("token", "Token"),
    Item("exchange_token", "Exchange Token"),
    Item("timestamp", "Timestamp"),
    Item("order_time", "Order Time"),
    Item("update_time", "Update Time"),
    Item("trade_time", "Trade Time"),
    Item("last_update_time", "Last Update"),
    Item("market_open_time", "Market Open"),
    Item("market_close_time", "Market Close"),
    Item("status", "Status"),
    Item("message", "Message"),
    Item("error_code", "Error Code"),
    Item("error_message", "Error Message"),
    Item("rejection_reason", "Rejection Reason"),
    Item("validity", "Validity"),
    Item("product", "Product"),
    Item("strategy", "Strategy"),
    Item("tag", "Tag"),
    Item("broker", "Broker"),
    Item("account_id", "Account ID"),
    Item("user_id", "User ID"),
    Item("client_id", "Client ID"),
    Item("broker_order_id", "Broker Order ID"),
    Item("exchange_order_id", "Exchange Order ID"),
    Item("multiplier", "Multiplier"),
    Item("margin_required", "Margin Required"),
    Item("margin_blocked", "Margin Blocked"),
    Item("margin_available", "Margin Available"),
    Item("exposure", "Exposure"),
    Item("span_margin", "SPAN Margin"),
    Item("elm_margin", "ELM Margin"),
    Item("var_margin", "VAR Margin")
    >>)

\* ResponseConfig.priority_fields
priority_fields == <<
    "symbol", "tradingsymbol", "orderid", "order_id",
    "ltp", "last_price", "price", "averageprice",
    "triggerprice", "quantity", "remainingquantity", "filledquantity",
    "net_quantity", "status", "order_status", "action",
    "order_side", "pnl", "unrealized_pnl", "realized_pnl",
    "availablecash", "bid_price", "ask_price", "volume",
    "turnover", "timestamp", "order_time", "expiry",
    "exchange", "product", "instrument_type"
    >>

\* ResponseConfig.endpoint_schemas: each schema a dict of str
endpoint_schemas == PyDict(<<
    Item("quotes", PyDict(<<Item("format", "key_value"), Item("title_field", "symbol")>>)),
    Item("funds", PyDict(<<Item("format", "key_value"), Item("title", "Account Funds")>>)),
    Item("orderbook", PyDict(<<Item("format", "table"), Item("sort_by", "timestamp")>>)),
    Item("tradebook", PyDict(<<Item("format", "table"), Item("sort_by", "timestamp")>>)),
    Item("positionbook", PyDict(<<Item("format", "table")>>)),
    Item("holdings", PyDict(<<Item("format", "table")>>))
    >>)

\* The field-name lists of smart_format_value
\* smart_format_value: timestamp_fields
timestamp_fields == <<
    "timestamp", "date", "time", "order_time",
    "update_time", "trade_time", "last_update_time", "market_open_time",
    "market_close_time", "expiry_date"
    >>

\* smart_format_value: price_fields
price_fields == <<
    "price", "ltp", "high", "low",
    "open", "close", "trigger_price", "triggerprice",
    "averageprice", "last_price", "prev_close", "bid_price",
    "ask_price", "buy_price", "sell_price", "strikeprice",
    "strike_price", "underlying_price", "day_high", "day_low",
    "year_high", "year_low", "prev_open", "prev_high",
    "prev_low", "upper_circuit", "lower_circuit", "price_change",
    "day_change"
    >>

\* smart_format_value: currency_fields
currency_fields == <<
    "availablecash", "utiliseddebits", "utilisedpayout", "collateral",
    "payin", "payout", "turnover", "buy_value",
    "sell_value", "total_traded_value", "margin_required", "margin_blocked",
    "margin_available", "span_margin", "elm_margin", "var_margin",
    "exposure"
    >>

\* smart_format_value: quantity_fields
quantity_fields == <<
    "quantity", "remainingquantity", "filledquantity", "unfilledshares",
    "totalbuyquantity", "totalsellquantity", "pendingquantity", "rejectedquantity",
    "cancelledquantity", "disclosed_quantity", "bid_qty", "ask_qty",
    "last_qty", "volume", "total_traded_volume", "net_quantity",
    "buy_quantity", "sell_quantity", "lot_size"
    >>

\* smart_format_value: percentage_fields
percentage_fields == <<
    "pnl_percent", "percent_change", "day_change_percent", "change_percent",
    "implied_volatility"
    >>

\* smart_format_value: greek_fields
greek_fields == <<
    "delta", "gamma", "theta", "vega",
    "rho"
    >>

\* smart_format_value: special_int_fields
special_int_fields == <<
    "days_to_expiry", "bid_orders", "ask_orders", "multiplier"
    >>

\* ResponseConfig.timestamp_format is '%Y-%m-%d %H:%M:%S'

\* x in l for a list of str
InList(x, l) == \E i \in 1..Len(l) : l[i] = x

----------------------------------------------------------------------------
(* datetime.fromtimestamp(v).strftime('%Y-%m-%d %H:%M:%S')                 *)

\* The civil date of a day number counted from 1970-01-01, proleptic
\* Gregorian, as datetime computes it.
CivilFromDays(days) ==
    LET civil(era, yoe, doy, mp) ==
            LET m == IF mp < 10 THEN mp + 3 ELSE mp - 9
            IN  [year |-> yoe + era * 400 + (IF m <= 2 THEN 1 ELSE 0),
                 month |-> m,
                 day |-> doy - (153 * mp + 2) \div 5 + 1]
        ofDoy(era, yoe, doy) == civil(era, yoe, doy, (5 * doy + 2) \div 153)
        ofYoe(era, doe, yoe) ==
            ofDoy(era, yoe, doe - (365 * yoe + yoe \div 4 - yoe \div 100))
        ofDoe(era, doe) ==
            ofYoe(era, doe,
                  (doe - doe \div 1460 + doe \div 36524 - doe \div 146096) \div 365)
        ofEra(z, era) == ofDoe(era, z - era * 146097)
        ofZ(z) == ofEra(z, z \div 146097)
    IN  ofZ(days + 719468)

\* A text result: exc is "" or the exception raised.
Ok(s) == [exc |-> "", s |-> s]
Raise(e) == [exc |-> e, s |-> ""]

\* datetime.fromtimestamp(v) formatted, for a number v: the local time of
\* floor(v) seconds after the epoch.  nan is a ValueError, as is a year
\* outside 1..9999; what does not fit the platform's time_t (inf) is an
\* OverflowError.
FormatTimestamp(v, tz) ==
    LET two(n) == Pad(ToString(n), 2)
        \* c: the civil date; sod: the second of the day
        text(c, sod) ==
            IF c.year < 1 \/ c.year > 9999 THEN Raise("ValueError")
            ELSE Ok(Pad(ToString(c.year), 4) \o "-" \o two(c.month) \o "-"
                    \o two(c.day) \o " " \o two(sod \div 3600) \o ":"
                    \o two((sod % 3600) \div 60) \o ":" \o two(sod % 60))
        at(local) == text(CivilFromDays(local \div 86400), local % 86400)
        of(x) ==
            CASE x.k = "nan" -> Raise("ValueError")
              [] x.k = "inf" -> Raise("OverflowError")
              [] OTHER ->
                   at((IF x.neg THEN -x.w - (IF x.fr > 0 THEN 1 ELSE 0) ELSE x.w) + tz)
    IN  of(ToFloat(v))

----------------------------------------------------------------------------
(* smart_format_value: the categories in the order the code tests them.    *)
(* Each takes the result of the categories after it as rest, which is what *)
(* the code reaches when the category does not apply or its except clause  *)
(* swallows the failure.                                                   *)

\* Handle special integer fields: except (ValueError, TypeError)
SfvSpecialInt(key, value, rest) ==
    LET ofInt(n) ==
            IF n.exc \in {"ValueError", "TypeError"} THEN rest
            ELSE IF n.exc # "" THEN Raise(n.exc)
            ELSE Ok(ToString(n.n))
        ofFloat(f) == IF f.exc # "" THEN rest ELSE ofInt(FloatToInt(f))
    IN  IF ~InList(StrLower(key), special_int_fields) THEN rest
        ELSE ofFloat(ToFloat(value))

\* Handle Greek values
SfvGreek(key, value, rest) ==
    LET ofFloat(f) == IF f.exc # "" THEN rest ELSE Ok(Fixed4(f))
    IN  IF ~InList(StrLower(key), greek_fields) THEN rest
        ELSE ofFloat(ToFloat(value))

\* Handle percentage fields
SfvPercentage(key, value, rest) ==
    LET ofFloat(f) == IF f.exc # "" THEN rest ELSE Ok(Fixed2(f, FALSE) \o "%")
        named(low) == \/ StrContains(low, "percent")
                      \/ EndsWith(low, "_pct")
                      \/ InList(low, percentage_fields)
    IN  IF ~named(StrLower(key)) THEN rest
        ELSE ofFloat(ToFloat(value))

\* Handle quantity formatting: except (ValueError, TypeError)
SfvQuantity(key, value, rest) ==
    LET ofInt(n) ==
            IF n.exc \in {"ValueError", "TypeError"} THEN rest
            ELSE IF n.exc # "" THEN Raise(n.exc)
            ELSE IF n.n >= 1000 THEN Ok(GroupedInt(n.n))
            ELSE Ok(ToString(n.n))
        ofFloat(f) == IF f.exc # "" THEN rest ELSE ofInt(FloatToInt(f))
    IN  IF ~InList(StrLower(key), quantity_fields) THEN rest
        ELSE ofFloat(ToFloat(value))

\* Handle currency/value formatting
SfvCurrency(key, value, rest) ==
    LET ofFloat(f) ==
            IF f.exc # "" THEN rest
            ELSE IF FloatGe(f, 10000) THEN Ok(Fixed2(f, TRUE))
            ELSE IF NonZero(f) THEN Ok(Fixed2(f, FALSE))
            ELSE Ok("0.00")
    IN  IF ~InList(StrLower(key), currency_fields) THEN rest
        ELSE ofFloat(ToFloat(value))

\* Handle price formatting
SfvPrice(key, value, rest) ==
    LET ofFloat(f) ==
            IF f.exc # "" THEN rest
            ELSE IF NonZero(f) THEN Ok(Fixed2(f, FALSE))
            ELSE Ok("0.00")
    IN  IF ~InList(StrLower(key), price_fields) THEN rest
        ELSE ofFloat(ToFloat(value))

\* Handle date strings
SfvExpiry(key, value, rest) ==
    IF ~(InList(StrLower(key), <<"expiry", "expiry_date">>) /\ value.t = "str")
    THEN rest
    ELSE IF Len(value.s) = 10 /\ StrCount(value.s, "-") = 2 THEN Ok(value.s)
    ELSE IF Len(value.s) = 8 /\ StrIsDigit(value.s)
         THEN Ok(SubSeq(value.s, 1, 4) \o "-" \o SubSeq(value.s, 5, 6)
                 \o "-" \o SubSeq(value.s, 7, 8))
    ELSE rest

\* Handle timestamps: except (ValueError, TypeError, OSError)
SfvTimestamp(key, value, tz, rest) ==
    LET caught(r) ==
            IF r.exc \in {"ValueError", "TypeError", "OSError"} THEN rest ELSE r
    IN  IF ~(InList(StrLower(key), timestamp_fields) /\ IsNumber(value))
        THEN rest
        ELSE caught(FormatTimestamp(value, tz))

\* A variant of SmartFormat without the test for an empty value, which
\* leaves None and "" to the categories and the default
SmartFormat_noEmpty(key, value, tz) ==
    SfvTimestamp(key, value, tz,
    SfvExpiry(key, value,
    SfvPrice(key, value,
    SfvCurrency(key, value,
    SfvQuantity(key, value,
    SfvPercentage(key, value,
    SfvGreek(key, value,
    SfvSpecialInt(key, value,
    Ok(Str(value))))))))))

\* smart_format_value(key, value), in a host whose local time is tz seconds
\* east of UTC
SmartFormat(key, value, tz) ==
    IF value.t = "None" \/ (value.t = "str" /\ value.s = "") THEN Ok("")
    ELSE
    SfvTimestamp(key, value, tz,
    SfvExpiry(key, value,
    SfvPrice(key, value,
    SfvCurrency(key, value,
    SfvQuantity(key, value,
    SfvPercentage(key, value,
    SfvGreek(key, value,
    SfvSpecialInt(key, value,
    Ok(Str(value))))))))))

smart_format_value(key, value) == SmartFormat(key, value, tz_offset)

----------------------------------------------------------------------------
(* The formatter.  A function that returns rows yields RowsOk(rows); one   *)
(* that raises yields RowsRaise(exception).                                *)

RowsOk(rows) == [exc |-> "", rows |-> rows]
RowsRaise(e) == [exc |-> e, rows |-> <<>>]

\* The exception of the first result of rs that raised, "" when none did:
\* a loop stops at the first call that raises.
FirstExc(rs) ==
    IF \E i \in 1..Len(rs) : rs[i].exc # ""
    THEN rs[CHOOSE i \in 1..Len(rs) :
                /\ rs[i].exc # ""
                /\ \A j \in 1..(i - 1) : rs[j].exc = ""].exc
    ELSE ""

\* A variant of format_error that leaves out the "Error: " prefix
format_error_bare(message) == RowsOk(<< <<Str(message)>> >>)

\* format_error(message): message is rendered by the f-string, as str()
format_error(message) == RowsOk(<< <<"Error: " \o Str(message)>> >>)

\* A variant of detect_endpoint_type that answers "unknown" for a name
\* without a schema entry
detect_endpoint_type_fallback(endpoint) ==
    IF HasKey(endpoint_schemas, StrLower(LastSegment(endpoint)))
    THEN StrLower(LastSegment(endpoint))
    ELSE "unknown"

\* detect_endpoint_type(endpoint)
detect_endpoint_type(endpoint) ==
    IF endpoint = "" THEN "unknown"
    ELSE IF StrCount(endpoint, "/") >= 1 THEN StrLower(LastSegment(endpoint))
    ELSE "unknown"

\* A variant of get_display_label that shows the field name as it is
get_display_label_raw(field_name) == field_name

\* get_display_label(field_name)
get_display_label(field_name) ==
    IF HasKey(field_labels, field_name) THEN Lookup(field_labels, field_name)
    ELSE StrTitle(StrReplace(field_name, "_", " "))

RECURSIVE InsertSorted(_, _)
InsertSorted(sorted, x) ==
    IF sorted = <<>> THEN <<x>>
    ELSE IF StrLess(x, Head(sorted)) THEN <<x>> \o sorted
    ELSE <<Head(sorted)>> \o InsertSorted(Tail(sorted), x)

RECURSIVE SortedStr(_)
\* sorted(l) for a list of str
SortedStr(l) ==
    IF l = <<>> THEN <<>>
    ELSE InsertSorted(SortedStr(SubSeq(l, 1, Len(l) - 1)), l[Len(l)])

\* A variant of sort_fields_by_priority that leaves the other fields in the
\* order they came in
sort_fields_by_priority_unsorted(fields) ==
    SelectSeq(priority_fields, LAMBDA f : InList(f, fields))
    \o SelectSeq(fields, LAMBDA f : ~InList(f, priority_fields))

\* sort_fields_by_priority(fields)
sort_fields_by_priority(fields) ==
    SelectSeq(priority_fields, LAMBDA f : InList(f, fields))
    \o SortedStr(SelectSeq(fields, LAMBDA f : ~InList(f, priority_fields)))

\* ResponseConfig.endpoint_schemas.get(endpoint_type, {})
SchemaOf(endpoint_type) == DictGet(endpoint_schemas, endpoint_type, PyDict(<<>>))

\* format_key_value_data(data, endpoint_type, custom_title)
format_key_value_data(data, endpoint_type, custom_title) ==
    LET usable == \/ data.t = "dict"
                  \/ (data.t = "list" /\ data.l # <<>> /\ data.l[1].t = "dict")
        d == IF data.t = "dict" THEN data ELSE data.l[1]
        exchange == DictGet(d, "exchange", PyStr(""))
        titleOf(schema) ==
            IF custom_title # "" THEN custom_title
            ELSE IF HasKey(schema, "title") THEN Lookup(schema, "title")
            ELSE IF HasKey(schema, "title_field")
                    /\ HasKey(d, Lookup(schema, "title_field"))
                 THEN Str(DictGet(d, Lookup(schema, "title_field"), PyStr("")))
                      \o (IF Truthy(exchange)
                          THEN " (" \o Str(exchange) \o ")" ELSE "")
            ELSE StrTitle(endpoint_type) \o " Data"
        header(title) ==
            IF title # "" THEN <<title, "Value">> ELSE <<"Field", "Value">>
        \* values: what smart_format_value makes of each field, in order
        rows(fields, values, exc) ==
            IF exc # "" THEN RowsRaise(exc)
            ELSE RowsOk(<<header(titleOf(SchemaOf(endpoint_type)))>> \o
                        [i \in 1..Len(fields) |->
                            <<get_display_label(fields[i]), values[i].s>>])
        formatted(fields, values) == rows(fields, values, FirstExc(values))
        format(fields) ==
            formatted(fields,
                      [i \in 1..Len(fields) |->
                          smart_format_value(fields[i], Lookup(d, fields[i]))])
    IN  IF ~usable
        THEN RowsOk(<< <<"Invalid data format for key-value display">> >>)
        ELSE format(sort_fields_by_priority(Keys(d)))

RECURSIVE AllKeys(_, _)
\* The field names of the dicts among the first n elements of l, each once,
\* in the order first seen: list(all_fields) in one of the orders the set
\* may be iterated in (sort_fields_by_priority does not depend on it).
AllKeys(l, n) ==
    IF n = 0 THEN <<>>
    ELSE LET before == AllKeys(l, n - 1)
         IN  IF l[n].t = "dict"
             THEN before \o SelectSeq(Keys(l[n]), LAMBDA f : ~InList(f, before))
             ELSE before

RECURSIVE InsertDesc(_, _, _)
\* row put after every row of sorted whose column c is not below its own
InsertDesc(sorted, row, c) ==
    IF sorted = <<>> THEN <<row>>
    ELSE IF StrLess(Head(sorted)[c], row[c]) THEN <<row>> \o sorted
    ELSE <<Head(sorted)>> \o InsertDesc(Tail(sorted), row, c)

\* A variant of SortedDesc that leaves the rows in the order they are in
SortedDesc_unsorted(rows, c) == rows

RECURSIVE SortedDesc(_, _)
\* sorted(rows, key=lambda x: x[c], reverse=True): descending and stable
SortedDesc(rows, c) ==
    IF rows = <<>> THEN <<>>
    ELSE InsertDesc(SortedDesc(SubSeq(rows, 1, Len(rows) - 1), c),
                    rows[Len(rows)], c)

\* format_table_data(data, endpoint_type, schema)
format_table_data(data, endpoint_type, schema) ==
    LET \* one row: item.get raises AttributeError when item is no dict
        cells(ordered_fields, item) ==
            [j \in 1..Len(ordered_fields) |->
                IF item.t # "dict" THEN Raise("AttributeError")
                ELSE smart_format_value(ordered_fields[j],
                         DictGet(item, ordered_fields[j], PyStr("")))]
        sorting(ordered_fields) ==
            /\ HasKey(schema, "sort_by")
            /\ InList(Lookup(schema, "sort_by"), ordered_fields)
        field_index(ordered_fields) ==
            CHOOSE j \in 1..Len(ordered_fields) :
                ordered_fields[j] = Lookup(schema, "sort_by")
        table(ordered_fields, headers, rows, exc) ==
            IF exc # "" THEN RowsRaise(exc)
            ELSE IF sorting(ordered_fields)
            THEN RowsOk(<<headers>> \o SortedDesc(rows, field_index(ordered_fields)))
            ELSE RowsOk(<<headers>> \o rows)
        \* grid[i]: what smart_format_value makes of each cell of row i
        formatted(ordered_fields, grid) ==
            table(ordered_fields,
                  [j \in 1..Len(ordered_fields) |->
                      get_display_label(ordered_fields[j])],
                  [i \in 1..Len(grid) |->
                      [j \in 1..Len(ordered_fields) |-> grid[i][j].s]],
                  FirstExc([i \in 1..Len(grid) |->
                               [exc |-> IF Len(ordered_fields) = 0 THEN ""
                                        ELSE FirstExc(grid[i])]]))
        format(ordered_fields) ==
            formatted(ordered_fields,
                      [i \in 1..Len(data.l) |-> cells(ordered_fields, data.l[i])])
    IN  IF data.t # "list"
        THEN RowsOk(<< <<"Expected list data for table format">> >>)
        ELSE IF data.l = <<>> THEN RowsOk(<< <<"No data available">> >>)
        ELSE IF data.l[1].t # "dict"
        THEN RowsOk(<< <<"Items">> >> \o
                    [i \in 1..Len(data.l) |-> <<Str(data.l[i])>>])
        ELSE format(sort_fields_by_priority(AllKeys(data.l, Len(data.l))))

\* format_for_excel(data, headers=None); no pandas DataFrame is a JSON value
format_for_excel(data) ==
    LET rows(values, exc) ==
            IF exc # "" THEN RowsRaise(exc)
            ELSE RowsOk([i \in 1..Len(data.items) |->
                            <<data.items[i].k, values[i].s>>])
        formatted(values) == rows(values, FirstExc(values))
    IN  IF data.t = "dict"
        THEN formatted([i \in 1..Len(data.items) |->
                           smart_format_value(data.items[i].k, data.items[i].v)])
        ELSE IF data.t = "list" /\ data.l # <<>>
        THEN IF data.l[1].t = "dict"
             THEN format_table_data(data, "", PyDict(<<>>))
             ELSE RowsOk([i \in 1..Len(data.l) |-> <<Str(data.l[i])>>])
        ELSE RowsOk(<< <<Str(data)>> >>)

\* "error" in response
ErrorIn(response) ==
    CASE response.t = "dict" -> [exc |-> "", b |-> HasKey(response, "error")]
      [] response.t = "list" ->
           [exc |-> "", b |-> \E i \in 1..Len(response.l) :
                                  response.l[i] = PyStr("error")]
      [] response.t = "str" -> [exc |-> "", b |-> StrContains(response.s, "error")]
      [] OTHER -> [exc |-> "TypeError", b |-> FALSE]

\* A variant of FormatType in which the preferred format, unless it is auto,
\* goes before the format of the endpoint's schema
FormatType_preference(data, endpoint_type) ==
    IF preferred_format # "auto" THEN preferred_format
    ELSE IF HasKey(SchemaOf(endpoint_type), "format")
    THEN Lookup(SchemaOf(endpoint_type), "format")
    ELSE IF data.t = "list" THEN "table" ELSE "key_value"

\* The format process_api_response settles on for the payload data
FormatType(data, endpoint_type) ==
    LET schema == SchemaOf(endpoint_type)
        format_type == IF HasKey(schema, "format") THEN Lookup(schema, "format")
                       ELSE preferred_format
    IN  IF format_type = "auto"
        THEN (IF data.t = "list" THEN "table" ELSE "key_value")
        ELSE format_type

\* process_api_response(response, endpoint, custom_title)
process_api_response(response, endpoint, custom_title) ==
    LET hasError == ErrorIn(response)
        data == DictGet(response, "data", response)
        endpoint_type == detect_endpoint_type(endpoint)
        schema == SchemaOf(endpoint_type)
        format_type == FormatType(data, endpoint_type)
        single == data.t = "list" /\ Len(data.l) = 1 /\ data.l[1].t = "dict"
        unwrapped == IF single /\ format_type = "key_value" THEN data.l[1] ELSE data
    IN  IF hasError.exc # "" THEN RowsRaise(hasError.exc)
        ELSE IF hasError.b
        THEN \* response["error"]: only a dict is indexed by a str
             IF response.t = "dict" THEN format_error(Lookup(response, "error"))
             ELSE RowsRaise("TypeError")
        ELSE IF response.t # "dict" THEN RowsRaise("AttributeError")
        ELSE IF ~Truthy(data) THEN RowsOk(<< <<"No data received">> >>)
        ELSE IF format_type = "key_value"
        THEN format_key_value_data(unwrapped, endpoint_type, custom_title)
        ELSE IF format_type = "table"
        THEN format_table_data(unwrapped, endpoint_type, schema)
        ELSE format_for_excel(unwrapped)

----------------------------------------------------------------------------
(* The transport.  What urlopen, read and json.loads do on one connection  *)
(* attempt is the environment's choice, an outcome: kind "ok" with the     *)
(* decoded body, or the exception raised (HTTPError is a URLError).  The   *)
(* wall-clock "timestamp" entries of the debug records are left out.       *)

OutcomeOk(body) == [kind |-> "ok", body |-> body, code |-> 200, msg |-> ""]
OutcomeExc(kind, code, msg) == [kind |-> kind, body |-> PyNone, code |-> code, msg |-> msg]

\* A variant of validate_api_key that accepts every key
validate_api_key_always == TRUE

\* validate_api_key()
validate_api_key == api_key # "" /\ StrStrip(api_key) # ""

\* normalize_url(endpoint)
normalize_url(endpoint) ==
    IF force_http /\ StartsWith(endpoint, "https://")
    THEN StrReplace(endpoint, "https://", "http://")
    ELSE endpoint

\* A variant of post_request_with_fallback that tries the http:// form
\* twice and then gives up with the error of its first branch
post_request_with_fallback_gaveup(endpoint, outcomes, attempt) ==
    [ret |-> PyDict(<<Item("error", PyStr("All connection attempts failed"))>>),
     raised |-> OutcomeOk(PyNone),
     attempts |-> <<endpoint, StrReplace(endpoint, "https://", "http://"),
                    StrReplace(endpoint, "https://", "http://")>>]

RECURSIVE post_request_with_fallback(_, _, _)
\* post_request_with_fallback(endpoint, payload, attempt): outcomes[attempt]
\* is what the transport does on that attempt.  ret is the value returned,
\* or raised is the outcome whose exception leaves the function; attempts
\* lists the URLs a connection was attempted to, in order.
post_request_with_fallback(endpoint, outcomes, attempt) ==
    LET o == outcomes[attempt]
        https == StartsWith(endpoint, "https://")
        http_endpoint == StrReplace(endpoint, "https://", "http://")
        again == post_request_with_fallback(http_endpoint, outcomes, attempt + 1)
        retry == [again EXCEPT !.attempts = <<endpoint>> \o @]
        raise == [ret |-> PyNone, raised |-> o, attempts |-> <<endpoint>>]
    IN  IF attempt > 2
        THEN [ret |-> PyDict(<<Item("error", PyStr("All connection attempts failed"))>>),
              raised |-> OutcomeOk(PyNone), attempts |-> <<>>]
        ELSE IF o.kind = "ok"
        THEN [ret |-> o.body, raised |-> OutcomeOk(PyNone), attempts |-> <<endpoint>>]
        ELSE IF o.kind \in {"URLError", "HTTPError"}
        THEN IF StrContains(StrLower(o.msg), "unknown url type: https") /\ https
             THEN retry ELSE raise
        ELSE IF attempt = 1 /\ https THEN retry ELSE raise

\* A variant of ErrorDict that files the message under "message"
ErrorDict_message(msg) == PyDict(<<Item("message", PyStr(msg))>>)

\* {"error": error_msg}
ErrorDict(msg) == PyDict(<<Item("error", PyStr(msg))>>)

\* post_request(endpoint, payload): the value returned (post_request has an
\* except clause for every Exception), the new DebugLog fields and the
\* connection attempts made.
post_request(endpoint, payload, outcomes) ==
    LET count == request_count + 1
        normalized_endpoint == normalize_url(endpoint)
        \* fb: what post_request_with_fallback did; bodyError: it returned a
        \* body with an "error" key
        message(fb, bodyError) ==
            CASE bodyError -> Str(Lookup(fb.ret, "error"))
              [] fb.raised.kind = "HTTPError" ->
                   "HTTP Error " \o ToString(fb.raised.code) \o ": " \o fb.raised.msg
              [] fb.raised.kind = "URLError" ->
                   "URL Error: " \o fb.raised.msg \o
                   (IF StrContains(StrLower(fb.raised.msg), "unknown url type: https")
                    THEN " (HTTPS not supported - try HTTP or use oa_force_http())"
                    ELSE "")
              [] fb.raised.kind = "JSONDecodeError" ->
                   "JSON Decode Error: " \o fb.raised.msg
              [] OTHER -> fb.raised.msg
        errorLog(fb, error_msg) ==
            IF fb.raised.kind = "HTTPError"
            THEN PyDict(<<Item("error", PyStr(error_msg)),
                          Item("status_code", PyInt(fb.raised.code)),
                          Item("request_id", PyInt(count))>>)
            ELSE PyDict(<<Item("error", PyStr(error_msg)),
                          Item("request_id", PyInt(count))>>)
        logged(fb, good, error_msg) ==
            [request_count |-> count,
             last_request |-> PyDict(<<Item("endpoint", PyStr(endpoint)),
                                       Item("payload", payload),
                                       Item("request_id", PyInt(count))>>),
             last_response |->
                 IF good
                 THEN PyDict(<<Item("status_code", PyInt(200)),
                               Item("data", fb.ret),
                               Item("request_id", PyInt(count)),
                               Item("final_endpoint", PyStr(normalized_endpoint))>>)
                 ELSE errorLog(fb, error_msg),
             ret |-> IF good THEN fb.ret ELSE ErrorDict(error_msg),
             attempts |-> fb.attempts]
        settled(fb, bodyError) ==
            logged(fb, fb.raised.kind = "ok" /\ ~bodyError, message(fb, bodyError))
        received(fb) ==
            settled(fb, /\ fb.raised.kind = "ok"
                        /\ fb.ret.t = "dict"
                        /\ HasKey(fb.ret, "error"))
    IN  received(post_request_with_fallback(normalized_endpoint, outcomes, 1))

----------------------------------------------------------------------------
(* What each spreadsheet function makes of the value post_request returned. *)

\* if "error" in response: return format_error(response["error"]), the
\* opening of the functions that format the response themselves: raised
\* or returned is set when the function ends there.  A response that is no
\* dict raises: in needs a container, ["error"] and .get a dict.
ErrorGuard(response) ==
    LET e == ErrorIn(response)
    IN  IF e.exc # "" THEN [done |-> TRUE, r |-> RowsRaise(e.exc)]
        ELSE IF e.b /\ response.t = "dict"
        THEN [done |-> TRUE, r |-> format_error(Lookup(response, "error"))]
        ELSE IF e.b THEN [done |-> TRUE, r |-> RowsRaise("TypeError")]
        ELSE IF response.t # "dict"
        THEN [done |-> TRUE, r |-> RowsRaise("AttributeError")]
        ELSE [done |-> FALSE, r |-> RowsOk(<<>>)]

\* handle_optional_param(param, default)
handle_optional_param(param, default) ==
    IF param.t = "None" \/ param = PyStr("") THEN default ELSE Str(param)

\* len(v): defined for str, list and dict
PyLen(v) ==
    CASE v.t = "str" -> IntOk(Len(v.s))
      [] v.t = "list" -> IntOk(Len(v.l))
      [] v.t = "dict" -> IntOk(Len(v.items))
      [] OTHER -> IntRaise("TypeError")

\* levels[i][key] of oa_depth, i counted from 1: v is the value, exc what
\* the subscripts raise
DepthEntry(levels, i, key) ==
    CASE levels.t = "dict" -> [exc |-> "KeyError", v |-> PyNone]
      [] levels.t = "str" -> [exc |-> "TypeError", v |-> PyNone]
      [] levels.l[i].t # "dict" -> [exc |-> "TypeError", v |-> PyNone]
      [] ~HasKey(levels.l[i], key) -> [exc |-> "KeyError", v |-> PyNone]
      [] OTHER -> [exc |-> "", v |-> Lookup(levels.l[i], key)]

Max(a, b) == IF a >= b THEN a ELSE b

\* oa_depth, from the response on
RenderDepth(response) ==
    LET g == ErrorGuard(response)
        data == DictGet(response, "data", PyDict(<<>>))
        asks == DictGet(data, "asks", PyList(<<>>))
        bids == DictGet(data, "bids", PyList(<<>>))
        na == PyLen(asks)
        nb == PyLen(bids)
        \* the two cells row i takes from one side of the book, price first
        side(levels, n, i) ==
            IF i > n THEN <<Ok(""), Ok("")>>
            ELSE LET pr == DepthEntry(levels, i, "price")
                     qt == DepthEntry(levels, i, "quantity")
                 IN  <<IF pr.exc # "" THEN Raise(pr.exc)
                       ELSE smart_format_value("price", pr.v),
                       IF qt.exc # "" THEN Raise(qt.exc) ELSE Ok(Str(qt.v))>>
        book == <<[levels |-> asks, n |-> na.n], [levels |-> bids, n |-> nb.n]>>
        both(sides) == sides[1] \o sides[2]
        cells(i) == both([k \in 1..2 |-> side(book[k].levels, book[k].n, i)])
        rows(grid, exc) ==
            IF exc # "" THEN RowsRaise(exc)
            ELSE RowsOk(<< <<"Ask Price", "Ask Qty", "Bid Price", "Bid Qty">> >> \o
                        [i \in 1..Len(grid) |-> [j \in 1..4 |-> grid[i][j].s]])
        formatted(grid) ==
            rows(grid, FirstExc([i \in 1..Len(grid) |-> [exc |-> FirstExc(grid[i])]]))
    IN  IF g.done THEN g.r
        ELSE IF ~Truthy(data) THEN format_error(PyStr("No depth data received"))
        ELSE IF data.t # "dict" THEN RowsRaise("AttributeError")
        ELSE IF na.exc # "" THEN RowsRaise(na.exc)
        ELSE IF nb.exc # "" THEN RowsRaise(nb.exc)
        ELSE formatted([i \in 1..Max(na.n, nb.n) |-> cells(i)])

\* One row of oa_history for item; the try block catches ValueError,
\* TypeError and OSError, so item.get on what is no dict escapes it.
HistoryRow(symbol, item) ==
    LET ohlc == <<"open", "high", "low", "close">>
        prices == [j \in 1..4 |->
                      smart_format_value(ohlc[j], DictGet(item, ohlc[j], PyStr(""))).s]
        rowOf(dt, caught) ==
            IF dt.exc # "" /\ ~caught THEN [exc |-> dt.exc, row |-> <<>>]
            ELSE [exc |-> "",
                  row |-> <<symbol,
                            IF caught THEN "N/A" ELSE SubSeq(dt.s, 1, 10),
                            IF caught THEN "N/A" ELSE SubSeq(dt.s, 12, 19)>>
                          \o prices
                          \o <<Str(DictGet(item, "volume", PyStr("")))>>]
        dated(dt) == rowOf(dt, dt.exc \in {"ValueError", "TypeError", "OSError"})
        at(timestamp) ==
            dated(IF IsNumber(timestamp) THEN FormatTimestamp(timestamp, tz_offset)
                  ELSE Raise("TypeError"))
    IN  IF item.t # "dict" THEN [exc |-> "AttributeError", row |-> <<>>]
        ELSE at(DictGet(item, "timestamp", PyInt(0)))

\* for item in data: the items of a list, the keys of a dict, the
\* characters of a str
IterItems(data) ==
    CASE data.t = "list" -> data.l
      [] data.t = "dict" -> [i \in 1..Len(data.items) |-> PyStr(data.items[i].k)]
      [] data.t = "str" -> [i \in 1..Len(data.s) |-> PyStr(Chr(data.s, i))]

\* oa_history, from the response on
RenderHistory(response, symbol) ==
    LET g == ErrorGuard(response)
        data == DictGet(response, "data", PyList(<<>>))
        rows(rs, exc) ==
            IF exc # "" THEN RowsRaise(exc)
            ELSE RowsOk(<< <<"Ticker", "Date", "Time", "Open", "High", "Low",
                            "Close", "Volume">> >> \o
                        [i \in 1..Len(rs) |-> rs[i].row])
        formatted(rs) == rows(rs, FirstExc(rs))
        each(items) ==
            formatted([i \in 1..Len(items) |-> HistoryRow(symbol, items[i])])
    IN  IF g.done THEN g.r
        ELSE IF ~Truthy(data) THEN format_error(PyStr("No historical data found"))
        ELSE IF data.t \notin {"list", "dict", "str"} THEN RowsRaise("TypeError")
        ELSE each(IterItems(data))

\* One row of oa_orderstatus
StatusRow(key, value) ==
    LET isTime == InList(StrLower(key), <<"timestamp", "date", "time">>)
                  /\ IsNumber(value)
        dated(dt) ==
            IF dt.exc = "" THEN [exc |-> "", row |-> <<key, dt.s>>]
            ELSE IF dt.exc \in {"ValueError", "TypeError", "OSError"}
            THEN [exc |-> "", row |-> <<key, Str(value)>>]
            ELSE [exc |-> dt.exc, row |-> <<>>]
    IN  IF ~isTime THEN [exc |-> "", row |-> <<key, Str(value)>>]
        ELSE dated(FormatTimestamp(value, tz_offset))

\* oa_orderstatus, from the response on
RenderOrderStatus(response) ==
    LET g == ErrorGuard(response)
        data == DictGet(response, "data", PyDict(<<>>))
        rows(rs, exc) ==
            IF exc # "" THEN RowsRaise(exc)
            ELSE RowsOk([i \in 1..Len(rs) |-> rs[i].row])
        formatted(rs) == rows(rs, FirstExc(rs))
    IN  IF g.done THEN g.r
        ELSE IF ~Truthy(data) THEN format_error(PyStr("No order status data found"))
        ELSE IF data.t # "dict" THEN RowsRaise("AttributeError")
        ELSE formatted([i \in 1..Len(data.items) |->
                           StatusRow(data.items[i].k, data.items[i].v)])

\* oa_placeorder, from the response on (the warning sign that opens the
\* first cell is written "(!)" here)
RenderPlaceOrder(response) ==
    LET g == ErrorGuard(response)
    IN  IF g.done THEN g.r
        ELSE RowsOk(<< <<"(!) ORDER PLACED", "Order ID">>,
                       <<"Result", Str(DictGet(response, "orderid", PyStr("Unknown")))>> >>)

\* oa_modifyorder and oa_cancelorder, from the response on
RenderStatusMessage(response, defaultMessage) ==
    LET g == ErrorGuard(response)
    IN  IF g.done THEN g.r
        ELSE RowsOk(<< <<"Status", Str(DictGet(response, "status", PyStr("Unknown")))>>,
                       <<"Message", Str(DictGet(response, "message",
                                                PyStr(defaultMessage)))>> >>)

\* oa_intervals, from the response on
RenderIntervals(response, endpoint) ==
    LET orDefault(r) ==
            IF r = RowsOk(<< <<"No data received">> >>)
            THEN RowsOk(<< <<"Category", "Interval">>, <<"Minutes", "1m">>,
                           <<"Minutes", "5m">>, <<"Minutes", "15m">>,
                           <<"Minutes", "30m">>, <<"Hours", "1h">>, <<"Hours", "4h">>,
                           <<"Daily", "1d">>, <<"Weekly", "1w">>, <<"Monthly", "1M">> >>)
            ELSE r
    IN  orDefault(process_api_response(response, endpoint, ""))

\* oa_test_connection, from the response on: its try block catches every
\* Exception and reports it (the exception's text is written as its name)
RenderTestConnection(response) ==
    LET e == ErrorIn(response)
        failed(text) == RowsOk(<< <<"Connection Test", "FAILED">>, <<"Error", text>> >>)
    IN  IF e.exc # "" THEN failed(e.exc)
        ELSE IF e.b /\ response.t # "dict" THEN failed("TypeError")
        ELSE IF e.b
        THEN RowsOk(<< <<"Connection Test", "FAILED">>,
                       <<"Error", Str(Lookup(response, "error"))>>,
                       <<"Host", host_url>> >>)
        ELSE RowsOk(<< <<"Connection Test", "SUCCESS">>,
                       <<"Host", host_url>>, <<"Version", version>> >>)

----------------------------------------------------------------------------
(* The bounds of the model and the inputs the operations are given.        *)

\* API calls that send a request in one behaviour
MaxRequests == 1

\* The keys oa_api is called with: blank ones, and one with blanks around it
ApiKeyInputs == {"", "  ", " k3y-9 "}

VersionInputs == {"v1"}

HostInputs == {"http://127.0.0.1:5000", "https://oa.example.com/"}

FormatInputs == {"auto", "table", "key_value", "csv"}

\* The bodies a server answers with, decoded
ServerBodies == {
    PyDict(<<Item("status", PyStr("success")),
             Item("data", PyDict(<<Item("symbol", PyStr("RELIANCE")),
                                   Item("ltp", PyFloat(FALSE, 2500, 4000)),
                                   Item("pnl_percent", PyFloat(FALSE, 3, 2560))>>))>>),
    PyDict(<<Item("status", PyStr("success")),
             Item("data", PyList(<<
                 PyDict(<<Item("orderid", PyStr("24012500001")),
                          Item("quantity", PyInt(1500)),
                          Item("timestamp", PyInt(1700000000))>>),
                 PyDict(<<Item("orderid", PyStr("24012500002")),
                          Item("timestamp", PyInt(1700003600)),
                          Item("price", PyStr("101.5"))>>)>>))>>),
    PyDict(<<Item("data", PyDict(<<
                 Item("asks", PyList(<<PyDict(<<Item("price", PyFloat(FALSE, 2501, 0)),
                                                Item("quantity", PyInt(40))>>)>>)),
                 Item("bids", PyList(<<>>))>>))>>),
    PyDict(<<Item("status", PyStr("success")), Item("orderid", PyStr("24012500003"))>>),
    PyDict(<<Item("status", PyStr("error")), Item("error", PyStr("Invalid openalgo apikey"))>>),
    PyDict(<<Item("status", PyStr("success")), Item("data", PyList(<<>>))>>),
    PyList(<<PyDict(<<Item("symbol", PyStr("INFY"))>>)>>)
    }

\* What one connection attempt to url can end in
Outcomes(url) ==
    {OutcomeOk(b) : b \in ServerBodies}
    \cup {OutcomeExc("HTTPError", 401, "Unauthorized"),
          OutcomeExc("URLError", 0, "[Errno 111] Connection refused"),
          OutcomeExc("JSONDecodeError", 0, "Expecting value: line 1 column 1 (char 0)"),
          OutcomeExc("TimeoutError", 0, "timed out")}
    \cup (IF StartsWith(url, "https://")
          THEN {OutcomeExc("URLError", 0, "unknown url type: https")}
          ELSE {})

\* The code makes a second attempt, to the http:// form, after a first
\* attempt to an https:// url that ended in o
FallsBack(url, o) ==
    /\ StartsWith(url, "https://")
    /\ o.kind # "ok"
    /\ o.kind \in {"URLError", "HTTPError"} =>
           StrContains(StrLower(o.msg), "unknown url type: https")

\* The transport's outcomes of a first attempt to url and, where the code
\* makes one, of a second attempt
OutcomePairs(url) ==
    UNION {{<<o1, o2>> : o2 \in IF FallsBack(url, o1)
                                THEN Outcomes(StrReplace(url, "https://", "http://"))
                                ELSE {o1}} : o1 \in Outcomes(url)}

Symbols == {"RELIANCE"}
Exchanges == {"NSE"}

----------------------------------------------------------------------------
Init ==
    /\ api_key = ""
    /\ version = "v1"
    /\ host_url = "http://127.0.0.1:5000"
    /\ force_http = FALSE
    /\ preferred_format = "auto"
    /\ request_count = 0
    /\ last_request = PyNone
    /\ last_response = PyNone
    /\ tz_offset = 19800
    /\ call = [op |-> "start", sent |-> FALSE, response |-> PyNone, endpoint |-> ""]
    /\ posts = <<>>
    /\ result = RowsOk(<<>>)

config == <<api_key, version, host_url, force_http, preferred_format, tz_offset>>
debug == <<request_count, last_request, last_response>>

\* oa_api(api_key, version, host_url)
oa_api(key, ver, host) ==
    /\ request_count < MaxRequests
    /\ call' = [op |-> "oa_api", sent |-> FALSE, response |-> PyNone, endpoint |-> ""]
    /\ posts' = <<>>
    /\ IF key = "" \/ StrStrip(key) = ""
       THEN /\ result' = [exc |-> "", text |-> "Error: API Key is required."]
            /\ UNCHANGED <<api_key, version, host_url>>
       ELSE /\ api_key' = StrStrip(key)
            /\ version' = ver
            /\ host_url' = RStripChar(host, "/")
            /\ result' = [exc |-> "",
                          text |-> "Configuration updated: API Key Set, Version = "
                                   \o ver \o ", Host = " \o RStripChar(host, "/")]
    /\ UNCHANGED <<force_http, preferred_format, tz_offset, debug>>

\* A variant of oa_set_format that falls back to "auto" on a value it does
\* not know
oa_set_format_reset(format_type) ==
    /\ request_count < MaxRequests
    /\ call' = [op |-> "oa_set_format", sent |-> FALSE, response |-> PyNone, endpoint |-> ""]
    /\ posts' = <<>>
    /\ IF format_type \notin {"auto", "table", "key_value"}
       THEN /\ result' = [exc |-> "",
                          text |-> "Error: format_type must be one of ['auto', 'table', 'key_value']"]
            /\ preferred_format' = "auto"
       ELSE /\ preferred_format' = format_type
            /\ result' = [exc |-> "", text |-> "Response format set to: " \o format_type]
    /\ UNCHANGED <<api_key, version, host_url, force_http, tz_offset, debug>>

\* A variant of oa_set_format that stores whatever it is given
oa_set_format_any(format_type) ==
    /\ request_count < MaxRequests
    /\ call' = [op |-> "oa_set_format", sent |-> FALSE, response |-> PyNone, endpoint |-> ""]
    /\ posts' = <<>>
    /\ preferred_format' = format_type
    /\ result' = [exc |-> "", text |-> "Response format set to: " \o format_type]
    /\ UNCHANGED <<api_key, version, host_url, force_http, tz_offset, debug>>

\* oa_set_format(format_type)
oa_set_format(format_type) ==
    /\ request_count < MaxRequests
    /\ call' = [op |-> "oa_set_format", sent |-> FALSE, response |-> PyNone, endpoint |-> ""]
    /\ posts' = <<>>
    /\ IF format_type \notin {"auto", "table", "key_value"}
       THEN /\ result' = [exc |-> "",
                          text |-> "Error: format_type must be one of ['auto', 'table', 'key_value']"]
            /\ UNCHANGED preferred_format
       ELSE /\ preferred_format' = format_type
            /\ result' = [exc |-> "", text |-> "Response format set to: " \o format_type]
    /\ UNCHANGED <<api_key, version, host_url, force_http, tz_offset, debug>>

\* oa_force_http(enable)
oa_force_http(enable) ==
    /\ request_count < MaxRequests
    /\ call' = [op |-> "oa_force_http", sent |-> FALSE, response |-> PyNone, endpoint |-> ""]
    /\ posts' = <<>>
    /\ force_http' = enable
    /\ result' = [exc |-> "",
                  text |-> IF enable
                           THEN "Forced HTTP mode enabled - all HTTPS URLs will be converted to HTTP"
                           ELSE "Forced HTTP mode disabled - HTTPS URLs will be used as-is"]
    /\ UNCHANGED <<api_key, version, host_url, preferred_format, tz_offset, debug>>

\* f"{OpenAlgoConfig.host_url}/api/{OpenAlgoConfig.version}/<name>"
EndpointOf(name) == host_url \o "/api/" \o version \o "/" \o name

\* The payload of a function: the API key first, then its parameters
Payload(params) == PyDict(<<Item("apikey", PyStr(api_key))>> \o params)

\* return format_error("OpenAlgo API Key is not set. Use oa_api()")
NoKeyError == format_error(PyStr("OpenAlgo API Key is not set. Use oa_api()"))

\* The opening of every API function: without a key nothing is sent and
\* nothing changes; with one, post_request is called on the function's
\* endpoint and payload, and call'.response is what it returned.
ApiCall(op, name, params, outcomes) ==
    LET made(pr) ==
            /\ request_count' = pr.request_count
            /\ last_request' = pr.last_request
            /\ last_response' = pr.last_response
            /\ posts' = pr.attempts
            /\ call' = [op |-> op, sent |-> TRUE, response |-> pr.ret,
                        endpoint |-> EndpointOf(name)]
    IN  IF ~validate_api_key
        THEN /\ call' = [op |-> op, sent |-> FALSE, response |-> PyNone, endpoint |-> ""]
             /\ posts' = <<>>
             /\ UNCHANGED <<config, debug>>
        ELSE /\ request_count < MaxRequests
             /\ made(post_request(EndpointOf(name), Payload(params), outcomes))
             /\ UNCHANGED config

Returns(rows) == result' = IF ~validate_api_key THEN NoKeyError ELSE rows

SymbolParams(symbol, exchange) ==
    <<Item("symbol", PyStr(symbol)), Item("exchange", PyStr(exchange))>>

oa_quotes(symbol, exchange, outcomes) ==
    /\ ApiCall("oa_quotes", "quotes", SymbolParams(symbol, exchange), outcomes)
    /\ Returns(process_api_response(call'.response, call'.endpoint,
                                    symbol \o " (" \o exchange \o ")"))

oa_depth(symbol, exchange, outcomes) ==
    /\ ApiCall("oa_depth", "depth", SymbolParams(symbol, exchange), outcomes)
    /\ Returns(RenderDepth(call'.response))

oa_history(symbol, exchange, outcomes) ==
    /\ ApiCall("oa_history", "history",
               SymbolParams(symbol, exchange) \o
               <<Item("interval", PyStr("5m")),
                 Item("start_date", PyStr("2024-01-01")),
                 Item("end_date", PyStr("2024-01-31"))>>,
               outcomes)
    /\ Returns(RenderHistory(call'.response, symbol))

oa_intervals(outcomes) ==
    /\ ApiCall("oa_intervals", "intervals", <<>>, outcomes)
    /\ Returns(RenderIntervals(call'.response, call'.endpoint))

oa_funds(outcomes) ==
    /\ ApiCall("oa_funds", "funds", <<>>, outcomes)
    /\ Returns(process_api_response(call'.response, call'.endpoint, ""))

oa_orderbook(outcomes) ==
    /\ ApiCall("oa_orderbook", "orderbook", <<>>, outcomes)
    /\ Returns(process_api_response(call'.response, call'.endpoint, ""))

oa_tradebook(outcomes) ==
    /\ ApiCall("oa_tradebook", "tradebook", <<>>, outcomes)
    /\ Returns(process_api_response(call'.response, call'.endpoint, ""))

oa_positionbook(outcomes) ==
    /\ ApiCall("oa_positionbook", "positionbook", <<>>, outcomes)
    /\ Returns(process_api_response(call'.response, call'.endpoint, ""))

oa_holdings(outcomes) ==
    /\ ApiCall("oa_holdings", "holdings", <<>>, outcomes)
    /\ Returns(process_api_response(call'.response, call'.endpoint, ""))

\* handle_optional_param(price, "0"), and the same for trigger_price and
\* disclosed_quantity: the three are left at their default 0
OptionalPrices ==
    <<Item("price", PyStr(handle_optional_param(PyInt(0), "0"))),
      Item("trigger_price", PyStr(handle_optional_param(PyInt(0), "0"))),
      Item("disclosed_quantity", PyStr(handle_optional_param(PyInt(0), "0")))>>

Quantities == {PyInt(10), PyNone}

oa_placeorder(symbol, exchange, quantity, outcomes) ==
    /\ ApiCall("oa_placeorder", "placeorder",
               <<Item("strategy", PyStr("S1")), Item("symbol", PyStr(symbol)),
                 Item("action", PyStr("BUY")), Item("exchange", PyStr(exchange)),
                 Item("pricetype", PyStr("MARKET")), Item("product", PyStr("MIS")),
                 Item("quantity", PyStr(handle_optional_param(quantity, "0")))>>
               \o OptionalPrices,
               outcomes)
    /\ Returns(RenderPlaceOrder(call'.response))

oa_modifyorder(symbol, exchange, quantity, outcomes) ==
    /\ ApiCall("oa_modifyorder", "modifyorder",
               <<Item("strategy", PyStr("S1")), Item("orderid", PyStr("24012500001")),
                 Item("symbol", PyStr(symbol)), Item("action", PyStr("BUY")),
                 Item("exchange", PyStr(exchange)),
                 Item("quantity", PyStr(handle_optional_param(quantity, "0"))),
                 Item("pricetype", PyStr("MARKET")), Item("product", PyStr("MIS"))>>
               \o OptionalPrices,
               outcomes)
    /\ Returns(RenderStatusMessage(call'.response, "Order modification request sent"))

oa_cancelorder(outcomes) ==
    /\ ApiCall("oa_cancelorder", "cancelorder",
               <<Item("strategy", PyStr("S1")), Item("orderid", PyStr("24012500001"))>>,
               outcomes)
    /\ Returns(RenderStatusMessage(call'.response, "Order cancellation request sent"))

oa_orderstatus(outcomes) ==
    /\ ApiCall("oa_orderstatus", "orderstatus",
               <<Item("strategy", PyStr("S1")), Item("orderid", PyStr("24012500001"))>>,
               outcomes)
    /\ Returns(RenderOrderStatus(call'.response))

oa_test_connection(outcomes) ==
    /\ ApiCall("oa_test_connection", "funds", <<>>, outcomes)
    /\ Returns(RenderTestConnection(call'.response))

\* The outcome pairs of a request to the endpoint of name
PairsFor(name) == OutcomePairs(normalize_url(EndpointOf(name)))

Next ==
    \/ \E key \in ApiKeyInputs, ver \in VersionInputs, host \in HostInputs :
           oa_api(key, ver, host)
    \/ \E f \in FormatInputs : oa_set_format(f)
    \/ \E enable \in BOOLEAN : oa_force_http(enable)
    \/ \E sy \in Symbols, ex \in Exchanges, o \in PairsFor("quotes") :
           oa_quotes(sy, ex, o)
    \/ \E sy \in Symbols, ex \in Exchanges, o \in PairsFor("depth") :
           oa_depth(sy, ex, o)
    \/ \E sy \in Symbols, ex \in Exchanges, o \in PairsFor("history") :
           oa_history(sy, ex, o)
    \/ \E o \in PairsFor("intervals") : oa_intervals(o)
    \/ \E o \in PairsFor("funds") : oa_funds(o)
    \/ \E o \in PairsFor("orderbook") : oa_orderbook(o)
    \/ \E o \in PairsFor("tradebook") : oa_tradebook(o)
    \/ \E o \in PairsFor("positionbook") : oa_positionbook(o)
    \/ \E o \in PairsFor("holdings") : oa_holdings(o)
    \/ \E sy \in Symbols, ex \in Exchanges, q \in Quantities,
          o \in PairsFor("placeorder") : oa_placeorder(sy, ex, q, o)
    \/ \E sy \in Symbols, ex \in Exchanges, q \in Quantities,
          o \in PairsFor("modifyorder") : oa_modifyorder(sy, ex, q, o)
    \/ \E o \in PairsFor("cancelorder") : oa_cancelorder(o)
    \/ \E o \in PairsFor("orderstatus") : oa_orderstatus(o)
    \/ \E o \in PairsFor("funds") : oa_test_connection(o)

Spec == Init /\ [][Next]_vars
----------------------------------------------------------------------------
(* The formatter on its own: process_api_response applied to a response,   *)
(* an endpoint and a title drawn from bounded sets, under every preferred  *)
(* format and in two timezones.                                            *)

\* Items of a generated array
MaxItems == 2

\* The objects the generated payloads are made of
Objects == {
    PyDict(<<Item("symbol", PyStr("INFY")), Item("ltp", PyFloat(FALSE, 1520, 5000))>>),
    PyDict(<<Item("orderid", PyStr("24012500001")), Item("quantity", PyInt(1500)),
             Item("timestamp", PyInt(1700000000))>>),
    PyDict(<<Item("quantity", PyStr("inf"))>>),
    PyDict(<<Item("zeta", PyNone), Item("alpha", PyBool(TRUE))>>),
    PyDict(<<Item("availablecash", PyFloat(TRUE, 12345, 6780)), Item("symbol", PyStr("TCS"))>>),
    PyDict(<<Item("timestamp", PyInf(FALSE))>>),
    PyDict(<<Item("orderid", PyStr("24012500002")), Item("timestamp", PyInt(1700003600))>>),
    PyDict(<<>>)
    }

Scalars == {PyInt(5), PyNone, PyStr("closed"), PyInt(0), PyStr("")}

\* Arrays of at most MaxItems objects and scalars
Arrays ==
    {PyList(l) : l \in UNION {[1..n -> Objects \cup {PyInt(5), PyNone}] : n \in 0..MaxItems}}

Payloads == Objects \cup Arrays \cup Scalars

\* Decoded responses: a payload under "data", alone or beside a status, a
\* payload that is the response itself, and responses with an "error" key
Responses ==
    {PyDict(<<Item("data", d)>>) : d \in Payloads}
    \cup {PyDict(<<Item("status", PyStr("success")), Item("data", d)>>) : d \in Objects}
    \cup Objects \cup {PyList(<<>>), PyList(<<PyDict(<<Item("symbol", PyStr("INFY"))>>)>>)}
    \cup {PyDict(<<Item("data", d)>>) :
             d \in {PyDict(<<Item("symbol", PyStr("SBIN")), Item("exchange", PyStr("NSE"))>>),
                    PyDict(<<Item("symbol", PyStr("SBIN")), Item("exchange", PyStr(""))>>),
                    PyDict(<<Item("symbol", PyStr("")), Item("ltp", PyInt(0))>>),
                    PyDict(<<Item("exchange", PyStr("NSE")), Item("ltp", PyInt(5))>>),
                    PyDict(<<Item("symbol", PyStr("RELIANCE")),
                             Item("ltp", PyFloat(FALSE, 2500, 4000)),
                             Item("pnl_percent", PyFloat(FALSE, 3, 2560))>>),
                    PyDict(<<Item("trade_note", PyStr("ok")), Item("ltp", PyInt(5)),
                             Item("average_price", PyInt(0))>>)}}
    \cup {PyDict(<<Item("error", e)>>) : e \in {PyStr("Invalid openalgo apikey"), PyStr(""),
                                                PyInt(404), PyNone}}
    \cup {PyDict(<<Item("status", PyStr("error")), Item("error", PyStr("Symbol not found")),
                   Item("data", d)>>) : d \in {PyNone, PyList(<<PyInt(5)>>)}}

Endpoints == {"http://127.0.0.1:5000/api/v1/quotes", "http://127.0.0.1:5000/api/v1/orderbook",
              "http://127.0.0.1:5000/api/v1/funds", "http://127.0.0.1:5000/api/v1/ping"}

Titles == {"", "INFY (NSE)", "RELIANCE (NSE)"}

FmtInit ==
    /\ api_key = "k3y-9"
    /\ version = "v1"
    /\ host_url = "http://127.0.0.1:5000"
    /\ force_http = FALSE
    /\ preferred_format \in {"auto", "table", "key_value"}
    /\ request_count = 0
    /\ last_request = PyNone
    /\ last_response = PyNone
    /\ tz_offset \in {0, 19800}
    /\ \E r \in Responses, e \in Endpoints, t \in Titles :
           call = [op |-> "input", response |-> r, endpoint |-> e, custom_title |-> t]
    /\ posts = <<>>
    /\ result = RowsOk(<<>>)

\* A variant of ProcessResponse that keeps the response it was given in
\* DebugLog.last_response
ProcessResponse_logged ==
    /\ call.op = "input"
    /\ call' = [call EXCEPT !.op = "process_api_response"]
    /\ result' = process_api_response(call.response, call.endpoint, call.custom_title)
    /\ last_response' = call.response
    /\ posts' = posts
    /\ UNCHANGED <<config, request_count, last_request>>

\* process_api_response(response, endpoint, custom_title) is called on the
\* input
ProcessResponse ==
    /\ call.op = "input"
    /\ call' = [call EXCEPT !.op = "process_api_response"]
    /\ result' = process_api_response(call.response, call.endpoint, call.custom_title)
    /\ posts' = posts
    /\ UNCHANGED <<config, debug>>

FmtNext == ProcessResponse

FmtSpec == FmtInit /\ [][FmtNext]_vars
----------------------------------------------------------------------------
(* smart_format_value on its own: applied to a field name of every         *)
(* category and a scalar value drawn from bounded sets, in two timezones.  *)

\* Catalogued field names, at least one of each category of
\* smart_format_value, and one name of no category
FieldNames == {"timestamp", "order_time", "expiry_date", "expiry", "ltp", "Price",
               "availablecash", "quantity", "lot_size", "pnl_percent", "delta",
               "multiplier", "days_to_expiry", "remarks", "price_change",
               "change_pct"}

\* Scalar values of a decoded JSON document: json.loads reads 1e999 and
\* Infinity as the float inf, NaN as nan
ScalarValues == {PyNone, PyStr(""), PyStr("abc"), PyStr("101.5"), PyStr("inf"),
                 PyStr("nan"), PyStr("20240125"), PyStr("2024-01-25"),
                 PyInt(0), PyInt(999), PyInt(1500), PyInt(1700000000),
                 PyBool(TRUE), PyFloat(FALSE, 12, 5000), PyFloat(TRUE, 12345, 6780),
                 PyFloat(FALSE, 0, 0), PyInf(FALSE), PyInf(TRUE), PyNan,
                 PyFloat(TRUE, 0, 10), PyInt(-25000), PyStr("12,345.68")}

SfvInit ==
    /\ api_key = "k3y-9"
    /\ version = "v1"
    /\ host_url = "http://127.0.0.1:5000"
    /\ force_http = FALSE
    /\ preferred_format = "auto"
    /\ request_count = 0
    /\ last_request = PyNone
    /\ last_response = PyNone
    /\ tz_offset \in {0, 19800}
    /\ \E k \in FieldNames, v \in ScalarValues :
           call = [op |-> "input", key |-> k, value |-> v]
    /\ posts = <<>>
    /\ result = Ok("")

\* smart_format_value(key, value) is called on the input
SmartFormatValue ==
    /\ call.op = "input"
    /\ call' = [call EXCEPT !.op = "smart_format_value"]
    /\ result' = smart_format_value(call.key, call.value)
    /\ posts' = posts
    /\ UNCHANGED <<config, debug>>

SfvNext == SmartFormatValue

SfvSpec == SfvInit /\ [][SfvNext]_vars
----------------------------------------------------------------------------
(* sort_fields_by_priority on its own: applied to every list of distinct   *)
(* field names, of bounded length, in every order.                         *)

\* Names in a generated list of fields
MaxFields == 4

SortInit ==
    /\ api_key = "k3y-9"
    /\ version = "v1"
    /\ host_url = "http://127.0.0.1:5000"
    /\ force_http = FALSE
    /\ preferred_format = "auto"
    /\ request_count = 0
    /\ last_request = PyNone
    /\ last_response = PyNone
    /\ tz_offset = 19800
    /\ \E n \in 0..MaxFields :
         \E l \in [1..n -> {"symbol", "ltp", "exchange", "alpha", "Zeta"}] :
           /\ \A i, j \in 1..n : l[i] = l[j] => i = j
           /\ call = [op |-> "input", fields |-> l]
    /\ posts = <<>>
    /\ result = <<>>

\* sort_fields_by_priority(fields) is called on the input
SortFields ==
    /\ call.op = "input"
    /\ call' = [call EXCEPT !.op = "sort_fields_by_priority"]
    /\ result' = sort_fields_by_priority(call.fields)
    /\ posts' = posts
    /\ UNCHANGED <<config, debug>>

SortSpec == SortInit /\ [][SortFields]_vars
----------------------------------------------------------------------------
(* The debug log over several requests: post_request as the API functions  *)
(* call it, and the functions that show the configuration and the log.     *)
(* The clock is not modelled: the records of DebugLog carry no timestamp   *)
(* and the views show 2025-01-01 09:15:00 in its place.                    *)

MaxPosts == 3

\* A variant of PostRequest that records a response only when the request
\* succeeded
PostRequest_stale(name, params, outcomes) ==
    LET made(pr) ==
            /\ request_count' = pr.request_count
            /\ last_request' = pr.last_request
            /\ last_response' = IF HasKey(pr.last_response, "error") THEN last_response
                                ELSE pr.last_response
            /\ posts' = pr.attempts
            /\ call' = [op |-> "post_request", sent |-> TRUE, response |-> pr.ret,
                        endpoint |-> EndpointOf(name)]
    IN  /\ validate_api_key
        /\ request_count < MaxPosts
        /\ made(post_request(EndpointOf(name), Payload(params), outcomes))
        /\ result' = RowsOk(<<>>)
        /\ UNCHANGED config

\* post_request(endpoint, payload) called by an API function, which builds
\* the endpoint from name and the payload from the key and params, and
\* calls it only when validate_api_key() holds
PostRequest(name, params, outcomes) ==
    LET made(pr) ==
            /\ request_count' = pr.request_count
            /\ last_request' = pr.last_request
            /\ last_response' = pr.last_response
            /\ posts' = pr.attempts
            /\ call' = [op |-> "post_request", sent |-> TRUE, response |-> pr.ret,
                        endpoint |-> EndpointOf(name)]
    IN  /\ validate_api_key
        /\ request_count < MaxPosts
        /\ made(post_request(EndpointOf(name), Payload(params), outcomes))
        /\ result' = RowsOk(<<>>)
        /\ UNCHANGED config

\* oa_get_config()
oa_get_config ==
    /\ call' = [op |-> "oa_get_config", sent |-> FALSE, response |-> PyNone, endpoint |-> ""]
    /\ posts' = <<>>
    /\ result' = RowsOk(<<
           <<"Configuration", "Value">>,
           <<"API Key", IF Len(api_key) > 4 THEN "***" \o LastChars(api_key, 4)
                        ELSE "Not Set">>,
           <<"Version", version>>,
           <<"Host URL", host_url>>,
           <<"Force HTTP Mode", IF force_http THEN "Enabled" ELSE "Disabled">>,
           <<"Response Format", preferred_format>>,
           <<"Status", "Ready for dynamic API calls with HTTPS fallback">> >>)
    /\ UNCHANGED <<config, debug>>

\* oa_debug_last_request()
oa_debug_last_request ==
    LET params(payload) == SelectSeq(payload.items, LAMBDA it : it.k # "apikey")
        paramRows(others) ==
            [i \in 1..Len(others) |-> <<"Param: " \o others[i].k, Str(others[i].v)>>]
        rowsOf(req, payload) ==
            << <<"Property", "Value">>,
               <<"Request ID", Str(Lookup(req, "request_id"))>>,
               <<"Timestamp", "2025-01-01 09:15:00">>,
               <<"Endpoint", Lookup(req, "endpoint").s>>,
               <<"API Key", IF HasKey(payload, "apikey")
                            THEN "***" \o LastChars(Lookup(payload, "apikey").s, 4)
                            ELSE "Not Found">> >>
            \o paramRows(params(payload))
    IN  /\ call' = [op |-> "oa_debug_last_request", sent |-> FALSE, response |-> PyNone,
                    endpoint |-> ""]
        /\ posts' = <<>>
        /\ result' = IF ~Truthy(last_request)
                     THEN RowsOk(<< <<"No requests made yet">> >>)
                     ELSE RowsOk(rowsOf(last_request, Lookup(last_request, "payload")))
        /\ UNCHANGED <<config, debug>>

\* oa_debug_full_log()
oa_debug_full_log ==
    LET payloadRows(items) ==
            [i \in 1..Len(items) |->
                <<"Payload: " \o items[i].k,
                  IF items[i].k = "apikey" THEN "***" \o LastChars(Str(items[i].v), 4)
                  ELSE Str(items[i].v)>>]
        requestRows(req) ==
            << <<"", "">>,
               <<"REQUEST INFO", "">>,
               <<"Request ID", Str(Lookup(req, "request_id"))>>,
               <<"Timestamp", "2025-01-01 09:15:00">>,
               <<"Endpoint", Lookup(req, "endpoint").s>>,
               <<"Method", "POST">>,
               <<"Content-Type", "application/json">> >>
            \o payloadRows(Lookup(req, "payload").items)
        apiRows(data) ==
            IF data.t # "dict" THEN <<>>
            ELSE [i \in 1..Len(SelectSeq(<<"status", "message", "orderid">>,
                                         LAMBDA k : HasKey(data, k))) |->
                     <<"API " \o SelectSeq(<<"status", "message", "orderid">>,
                                           LAMBDA k : HasKey(data, k))[i],
                       Str(Lookup(data, SelectSeq(<<"status", "message", "orderid">>,
                                                  LAMBDA k : HasKey(data, k))[i]))>>]
        responseRows(resp) ==
            << <<"", "">>,
               <<"RESPONSE INFO", "">>,
               <<"Response ID", Str(Lookup(resp, "request_id"))>>,
               <<"Timestamp", "2025-01-01 09:15:00">> >>
            \o (IF HasKey(resp, "status_code")
                THEN << <<"HTTP Status", Str(Lookup(resp, "status_code"))>> >> ELSE <<>>)
            \o (IF HasKey(resp, "error") THEN << <<"Error", Lookup(resp, "error").s>> >>
                ELSE IF HasKey(resp, "data")
                THEN << <<"Status", "Success">> >> \o apiRows(Lookup(resp, "data"))
                ELSE <<>>)
    IN  /\ call' = [op |-> "oa_debug_full_log", sent |-> FALSE, response |-> PyNone,
                    endpoint |-> ""]
        /\ posts' = <<>>
        /\ result' = IF ~Truthy(last_request) /\ ~Truthy(last_response)
                     THEN RowsOk(<< <<"No API calls made yet">> >>)
                     ELSE RowsOk(<< <<"Debug Log", "Details">> >>
                                 \o (IF Truthy(last_request) THEN requestRows(last_request)
                                     ELSE <<>>)
                                 \o (IF Truthy(last_response) THEN responseRows(last_response)
                                     ELSE <<>>))
        /\ UNCHANGED <<config, debug>>

LogSpec ==
    Init /\ [][\/ \E key \in {"", " k3y-9 ", "k3y"}, host \in HostInputs :
                      oa_api(key, "v1", host)
               \/ \E enable \in BOOLEAN : oa_force_http(enable)
               \/ \E o \in PairsFor("funds") : PostRequest("funds", <<>>, o)
               \/ \E o \in PairsFor("quotes") :
                      PostRequest("quotes", SymbolParams("RELIANCE", "NSE"), o)
               \/ oa_get_config
               \/ oa_debug_last_request
               \/ oa_debug_full_log]_vars
----------------------------------------------------------------------------
(* Properties.  Those of the formatter are stated of FmtSpec, those of     *)
(* smart_format_value of SfvSpec, those of the spreadsheet functions of    *)
(* Spec.                                                                   *)

\* The elements of a sequence
Range(f) == {f[i] : i \in DOMAIN f}

\* process_api_response has been applied to call.response
Formatted == call.op = "process_api_response"

\* The response of the call is an object
ObjectResponse == call.response.t = "dict"

\* The response of the call is an object with an "error" key
ErrorResponse == ObjectResponse /\ "error" \in {it.k : it \in Range(call.response.items)}

\* The payload of an object response: response.data if the "data" key is
\* present, else the whole response
PayloadOf(response) ==
    IF \E i \in 1..Len(response.items) : response.items[i].k = "data"
    THEN (CHOOSE it \in Range(response.items) : it.k = "data").v
    ELSE response

\* The empty and falsy payloads
EmptyPayloads == {PyDict(<<>>), PyList(<<>>), PyNone, PyStr(""), PyInt(0)}

\* C1: a response object with an "error" key, whatever its other keys, the
\* endpoint, the title and the preferred format are, is formatted as the
\* one row ["Error: " + message].
C1_ErrorShortCircuit ==
    (Formatted /\ ErrorResponse) =>
        LET message == (CHOOSE it \in Range(call.response.items) : it.k = "error").v
        IN  result = [exc |-> "", rows |-> << <<"Error: " \o Str(message)>> >>]

\* A response with "error" and "data" both, on a table endpoint, was
\* formatted as the error row
C1_Witness ==
    /\ Formatted /\ ErrorResponse
    /\ PayloadOf(call.response) = PyList(<<PyInt(5)>>)
    /\ call.endpoint = "http://127.0.0.1:5000/api/v1/orderbook"
    /\ preferred_format = "key_value"
    /\ result = [exc |-> "", rows |-> << <<"Error: Symbol not found">> >>]

\* C2: an error-free response whose payload is empty or falsy is formatted
\* as the one row ["No data received"], for every endpoint and preferred
\* format.
C2_NoDataReceived ==
    (Formatted /\ ObjectResponse /\ ~ErrorResponse
       /\ PayloadOf(call.response) \in EmptyPayloads) =>
        result = [exc |-> "", rows |-> << <<"No data received">> >>]

\* A response with an empty "data" array was formatted as the no-data row
C2_Witness ==
    /\ Formatted /\ ObjectResponse /\ ~ErrorResponse
    /\ PayloadOf(call.response) = PyList(<<>>)
    /\ result = [exc |-> "", rows |-> << <<"No data received">> >>]

\* The API functions of main.py
ApiFunctions == {"oa_quotes", "oa_depth", "oa_history", "oa_intervals", "oa_funds",
                 "oa_orderbook", "oa_tradebook", "oa_positionbook", "oa_holdings",
                 "oa_placeorder", "oa_modifyorder", "oa_cancelorder", "oa_orderstatus",
                 "oa_test_connection"}

\* C3: one call of an API function POSTs its payload at most once: no
\* second POST follows a failed first attempt.
C3_PostedAtMostOnce ==
    (call.op \in ApiFunctions /\ call.sent) => Len(posts) <= 1

\* v is an object {"error": message} with a text message
IsErrorObject(v) ==
    /\ v.t = "dict"
    /\ Len(v.items) = 1
    /\ v.items[1].k = "error"
    /\ v.items[1].v.t = "str"

\* What post_request returned to the API function is the decoded body of the
\* server, or an object {"error": message}
ReturnedBodyOrError ==
    call.sent =>
        \/ IsErrorObject(call.response)
        \/ \E i \in 1..Len(posts) : call.response \in {o.body : o \in Outcomes(posts[i])}

\* The one row "Error: {message}" for the error object post_request returned
ErrorRowOf(response) ==
    [exc |-> "", rows |-> << <<"Error: " \o response.items[1].v.s>> >>]

\* C4 as stated: post_request returns the decoded JSON value or an object
\* {"error": message} for every outcome of the transport, and every API
\* function renders the latter as the one row "Error: {message}".
C4_Original ==
    /\ ReturnedBodyOrError
    /\ (call.sent /\ IsErrorObject(call.response)) => result = ErrorRowOf(call.response)

\* C4, amended: post_request returns the decoded JSON value or an object
\* {"error": message} for every outcome of the transport; every API function
\* but oa_test_connection renders the latter as the one row
\* "Error: {message}", and oa_test_connection renders it as the three rows of
\* a failed connection test.
C4_Amended ==
    /\ ReturnedBodyOrError
    /\ (call.sent /\ IsErrorObject(call.response)) =>
           IF call.op = "oa_test_connection"
           THEN result = [exc |-> "",
                          rows |-> << <<"Connection Test", "FAILED">>,
                                      <<"Error", call.response.items[1].v.s>>,
                                      <<"Host", host_url>> >>]
           ELSE result = ErrorRowOf(call.response)

\* oa_placeorder got an HTTP 401 from the server and returned the error row
C4_Witness ==
    /\ call.op = "oa_placeorder" /\ call.sent
    /\ call.response = PyDict(<<Item("error", PyStr("HTTP Error 401: Unauthorized"))>>)
    /\ result = [exc |-> "", rows |-> << <<"Error: HTTP Error 401: Unauthorized">> >>]

\* The stored key is empty or blank: no non-blank key has been configured
KeyBlank == \A i \in 1..Len(api_key) : SubSeq(api_key, i, i) = " "

\* C5: while no non-blank API key is configured, a call of any API function
\* returns the one row "Error: OpenAlgo API Key is not set. Use oa_api()",
\* sends no request, and leaves request_count, last_request and
\* last_response as they were.
C5_NoKeyNoRequest ==
    [][(KeyBlank /\ call'.op \in ApiFunctions) =>
          /\ result' = [exc |-> "",
                        rows |-> << <<"Error: OpenAlgo API Key is not set. Use oa_api()">> >>]
          /\ ~call'.sent
          /\ posts' = <<>>
          /\ request_count' = request_count
          /\ last_request' = last_request
          /\ last_response' = last_response]_vars

\* oa_placeorder was called with no key configured and returned the error row
C5_Witness ==
    /\ KeyBlank
    /\ call.op = "oa_placeorder"
    /\ ~call.sent
    /\ request_count = 0
    /\ result = [exc |-> "",
                 rows |-> << <<"Error: OpenAlgo API Key is not set. Use oa_api()">> >>]

\* rows is a Rows value: a non-empty sequence of sequences of display strings
IsRows(rows) ==
    /\ Len(rows) >= 1
    /\ \A i \in 1..Len(rows) : \A j \in 1..Len(rows[i]) : rows[i][j] \in STRING

\* C6: for every response that is an object or an array, every endpoint and
\* every preferred format, process_api_response returns a Rows value and
\* does not raise.
C6_NeverRaises ==
    (Formatted /\ call.response.t \in {"dict", "list"}) =>
        result.exc = "" /\ IsRows(result.rows)

\* smart_format_value has been applied to call.key and call.value
SmartFormatted == call.op = "smart_format_value"

\* C7: smart_format_value raises for no catalogued field name and scalar
\* value: a failed numeric conversion falls through to the next rule and in
\* the end to the plain string of the value.
C7_NeverRaises ==
    SmartFormatted => result.exc = ""

\* The format process_api_response resolves for the payload of the call: the
\* schema's format if the endpoint has a schema, else the preferred format,
\* auto being table for an array and key_value otherwise
ResolvedFormat ==
    LET name == detect_endpoint_type(call.endpoint)
        data == PayloadOf(call.response)
        chosen == IF name \in {"quotes", "funds"} THEN "key_value"
                  ELSE IF name \in {"orderbook", "tradebook", "positionbook", "holdings"}
                  THEN "table"
                  ELSE preferred_format
    IN  IF chosen = "auto"
        THEN (IF data.t = "list" THEN "table" ELSE "key_value")
        ELSE chosen

\* An error-free object response with a payload that is not empty
HasPayload ==
    /\ Formatted /\ ObjectResponse /\ ~ErrorResponse
    /\ PayloadOf(call.response) \notin EmptyPayloads

\* d is an array of objects
IsObjectArray(d) == d.t = "list" /\ \A i \in 1..Len(d.l) : d.l[i].t = "dict"

\* C8: a payload of the wrong shape gives one descriptive row of one cell:
\* "Expected list data for table format" when the resolved format is table
\* and the payload is not an array, "Invalid data format for key-value
\* display" when the resolved format is key_value and the payload is neither
\* an object nor an array of objects.
C8_ShapeMismatchRow ==
    LET data == PayloadOf(call.response)
    IN  HasPayload =>
          /\ (ResolvedFormat = "table" /\ data.t # "list") =>
                 result = [exc |-> "",
                           rows |-> << <<"Expected list data for table format">> >>]
          /\ (ResolvedFormat = "key_value" /\ data.t # "dict" /\ ~IsObjectArray(data)) =>
                 result = [exc |-> "",
                           rows |-> << <<"Invalid data format for key-value display">> >>]

\* C9: a non-empty object payload formatted as key-value gives 1 + |fields|
\* rows of 2 cells each, and every field of the object is in exactly one
\* data row.
C9_KeyValueShape ==
    LET data == PayloadOf(call.response)
        fields == {it.k : it \in Range(data.items)}
    IN  (HasPayload /\ data.t = "dict" /\ ResolvedFormat = "key_value") =>
          /\ result.exc = ""
          /\ Len(result.rows) = 1 + Cardinality(fields)
          /\ \A i \in 1..Len(result.rows) : Len(result.rows[i]) = 2
          /\ \A f \in fields :
                 Cardinality({i \in 2..Len(result.rows) : result.rows[i][1] = get_display_label(f)}) = 1

\* C10: a non-empty array of objects formatted as a table gives 1 + |array|
\* rows, each of as many cells as the elements have field names in all, and
\* the cell of a field absent from its element is "".
C10_TableShape ==
    LET data == PayloadOf(call.response)
        fieldsOf(i) == {it.k : it \in Range(data.l[i].items)}
        union == UNION {fieldsOf(i) : i \in 1..Len(data.l)}
        columnsOf(f) == {j \in 1..Len(result.rows[1]) : result.rows[1][j] = get_display_label(f)}
    IN  (HasPayload /\ IsObjectArray(data) /\ ResolvedFormat = "table") =>
          /\ result.exc = ""
          /\ Len(result.rows) = 1 + Len(data.l)
          /\ \A i \in 1..Len(result.rows) : Len(result.rows[i]) = Cardinality(union)
          /\ \A f \in union : Cardinality(columnsOf(f)) = 1
          /\ \A f \in union :
                 Cardinality({i \in 2..Len(result.rows) :
                                  \A j \in columnsOf(f) : result.rows[i][j] = ""})
                   >= Cardinality({i \in 1..Len(data.l) : f \notin fieldsOf(i)})

\* sort_fields_by_priority has been applied to call.fields
Sorted == call.op = "sort_fields_by_priority"

\* f is in the priority list; PriorityRank(f) is its place there
IsPriority(f) == \E i \in 1..Len(priority_fields) : priority_fields[i] = f
PriorityRank(f) == CHOOSE i \in 1..Len(priority_fields) : priority_fields[i] = f

\* C11: whatever the order the distinct names are supplied in,
\* sort_fields_by_priority returns a permutation of them in which the names
\* of the priority list come first, in the order of that list, the other
\* names follow in lexicographic order, and sorting the result again gives
\* the same sequence.
C11_PriorityThenLexicographic ==
    Sorted =>
        /\ Len(result) = Len(call.fields)
        /\ Range(result) = Range(call.fields)
        /\ \A i, j \in 1..Len(result) :
               i < j =>
                   IF IsPriority(result[j])
                   THEN /\ IsPriority(result[i])
                        /\ PriorityRank(result[i]) < PriorityRank(result[j])
                   ELSE IsPriority(result[i]) \/ StrLess(result[i], result[j])
        /\ sort_fields_by_priority(result) = result

\* Four names given with the priority names last and out of priority order
\* were sorted
C11_Witness ==
    /\ Sorted
    /\ call.fields = <<"alpha", "exchange", "Zeta", "symbol">>
    /\ result = <<"symbol", "exchange", "Zeta", "alpha">>

InvalidKeyValueRow ==
    [exc |-> "", rows |-> << <<"Invalid data format for key-value display">> >>]

\* C13: key-value formatting renders an object, or the one object of a
\* one-element array; for every other payload, an array of two or more
\* objects among them, the result is the one row "Invalid data format for
\* key-value display" and no element is rendered.
C13_KeyValueAcceptsOneObject ==
    LET data == PayloadOf(call.response)
        accepted == \/ data.t = "dict"
                    \/ (data.t = "list" /\ Len(data.l) = 1 /\ data.l[1].t = "dict")
    IN  (HasPayload /\ ResolvedFormat = "key_value") =>
            IF accepted THEN result # InvalidKeyValueRow
            ELSE result = InvalidKeyValueRow

\* The payload of the call was formatted as key-value and rendered
KeyValueOutput ==
    /\ HasPayload
    /\ ResolvedFormat = "key_value"
    /\ result.exc = ""
    /\ result # InvalidKeyValueRow

\* The object key-value formatting renders: the payload, or the first
\* element of a payload that is an array
KeyValueObject ==
    LET data == PayloadOf(call.response)
    IN  IF data.t = "dict" THEN data ELSE data.l[1]

\* obj has a field named k; FieldOf(obj, k) is its value
HasField(obj, k) == \E i \in 1..Len(obj.items) : obj.items[i].k = k
FieldOf(obj, k) == (CHOOSE it \in Range(obj.items) : it.k = k).v

\* The title by the stated precedence; hasExchange: the object has an
\* exchange that counts; open: what stands between the value of the title
\* field and the exchange
TitleBy(hasExchange, open) ==
    LET name == detect_endpoint_type(call.endpoint)
        obj == KeyValueObject
    IN  IF call.custom_title # "" THEN call.custom_title
        ELSE IF name = "funds" THEN "Account Funds"
        ELSE IF name = "quotes" /\ HasField(obj, "symbol")
        THEN Str(FieldOf(obj, "symbol"))
             \o (IF hasExchange
                 THEN open \o Str(FieldOf(obj, "exchange")) \o ")" ELSE "")
        ELSE StrTitle(name) \o " Data"

\* C14 as stated: the header row of key-value output is [title, "Value"],
\* the title being the custom title, else the schema's title, else the value
\* of the schema's title field followed by "(exchange)" when the object has
\* an exchange field, else Titlecase(endpoint name) + " Data".
C14_Original ==
    KeyValueOutput =>
        result.rows[1] = <<TitleBy(HasField(KeyValueObject, "exchange"), "("), "Value">>

\* The title as the code builds it: the exchange counts when it is present
\* and not empty, and is set off by a space
TitleInCode ==
    TitleBy(/\ HasField(KeyValueObject, "exchange")
            /\ FieldOf(KeyValueObject, "exchange") \notin EmptyPayloads,
            " (")

\* C14, amended: the title is the custom title, else the schema's title,
\* else the value of the schema's title field followed by " (exchange)" when
\* the object has a non-empty exchange, else Titlecase(endpoint name) +
\* " Data"; the header row is [title, "Value"], and ["Field", "Value"] when
\* the title is empty.
C14_Amended ==
    KeyValueOutput =>
        result.rows[1] = IF TitleInCode # "" THEN <<TitleInCode, "Value">>
                         ELSE <<"Field", "Value">>

\* A quote with symbol and exchange, given no custom title, got the title
\* made of both
C14_Witness ==
    /\ KeyValueOutput
    /\ call.endpoint = "http://127.0.0.1:5000/api/v1/quotes"
    /\ call.custom_title = ""
    /\ KeyValueObject = PyDict(<<Item("symbol", PyStr("SBIN")),
                                 Item("exchange", PyStr("NSE"))>>)
    /\ result.rows[1] = <<"SBIN (NSE)", "Value">>

\* The payload of the call, an array of objects, was formatted as a table
\* and rendered
TableOutput ==
    /\ HasPayload
    /\ IsObjectArray(PayloadOf(call.response))
    /\ ResolvedFormat = "table"
    /\ result.exc = ""

\* The field the schema of the call's endpoint sorts by, "" if none
SortField ==
    IF detect_endpoint_type(call.endpoint) \in {"orderbook", "tradebook"}
    THEN "timestamp" ELSE ""

\* The data rows under the header of the result, one for each element of the
\* payload, in the order of the payload
UnsortedRows ==
    LET data == PayloadOf(call.response)
        header == result.rows[1]
        fields == UNION {{it.k : it \in Range(data.l[i].items)} : i \in 1..Len(data.l)}
        fieldAt(j) == CHOOSE f \in fields : get_display_label(f) = header[j]
    IN  [i \in 1..Len(data.l) |->
            [j \in 1..Len(header) |->
                IF HasField(data.l[i], fieldAt(j))
                THEN smart_format_value(fieldAt(j), FieldOf(data.l[i], fieldAt(j))).s
                ELSE ""]]

\* C15: in a table for an endpoint whose schema names a sort_by field that
\* is among the columns, the rows under the header are in descending order
\* of the string in that column and are, as a multiset, the rows of the
\* elements of the payload; when the field is not among the columns, or the
\* schema names none, the rows are in the order of the payload.
C15_SortByDescending ==
    LET data == PayloadOf(call.response)
        rows == result.rows
        n == Len(data.l)
        among == \E i \in 1..n : HasField(data.l[i], SortField)
        c == CHOOSE j \in 1..Len(rows[1]) : rows[1][j] = get_display_label(SortField)
    IN  TableOutput =>
          /\ Len(rows) = 1 + n
          /\ IF SortField # "" /\ among
             THEN /\ \A i, j \in 2..Len(rows) :
                         i < j => ~StrLess(rows[i][c], rows[j][c])
                  /\ \E p \in Permutations(1..n) :
                         \A i \in 1..n : rows[i + 1] = UnsortedRows[p[i]]
             ELSE \A i \in 1..n : rows[i + 1] = UnsortedRows[i]

\* Two orders given oldest first came out of the order book newest first
C15_Witness ==
    /\ TableOutput
    /\ call.endpoint = "http://127.0.0.1:5000/api/v1/orderbook"
    /\ tz_offset = 0
    /\ PayloadOf(call.response) =
           PyList(<<PyDict(<<Item("orderid", PyStr("24012500001")),
                             Item("quantity", PyInt(1500)),
                             Item("timestamp", PyInt(1700000000))>>),
                    PyDict(<<Item("orderid", PyStr("24012500002")),
                             Item("timestamp", PyInt(1700003600))>>)>>)
    /\ result.rows[2] = <<"24012500002", "", "2023-11-14 23:13:20">>
    /\ result.rows[3] = <<"24012500001", "1,500", "2023-11-14 22:13:20">>

\* The categories of smart_format_value in the order they are listed:
\* 1 empty, 2 timestamp, 3 expiry string, 4 price, 5 currency, 6 quantity,
\* 7 percentage, 8 Greek, 9 special integer, 10 default
Categories == 1..10

\* The name k, lower-cased, is one of names
Named(k, names) == \E i \in 1..Len(names) : names[i] = StrLower(k)

\* v converts to a float; to a float and on to an int
Converts(v) == ToFloat(v).exc = ""
ConvertsToInt(v) == Converts(v) /\ FloatToInt(ToFloat(v)).exc = ""

\* The condition of category c on the name k and the value v: the name is
\* in the category, the value is of its kind and converts
Meets(c, k, v) ==
    CASE c = 1 -> v = PyNone \/ v = PyStr("")
      [] c = 2 -> /\ Named(k, timestamp_fields)
                  /\ v.t \in {"int", "float", "bool"}
                  /\ FormatTimestamp(v, tz_offset).exc = ""
      [] c = 3 -> /\ Named(k, <<"expiry", "expiry_date">>)
                  /\ v.t = "str"
                  /\ \/ Len(v.s) = 10 /\ StrCount(v.s, "-") = 2
                     \/ Len(v.s) = 8 /\ StrIsDigit(v.s)
      [] c = 4 -> Named(k, price_fields) /\ Converts(v)
      [] c = 5 -> Named(k, currency_fields) /\ Converts(v)
      [] c = 6 -> Named(k, quantity_fields) /\ ConvertsToInt(v)
      [] c = 7 -> /\ \/ StrContains(StrLower(k), "percent")
                     \/ EndsWith(StrLower(k), "_pct")
                     \/ Named(k, percentage_fields)
                  /\ Converts(v)
      [] c = 8 -> Named(k, greek_fields) /\ Converts(v)
      [] c = 9 -> Named(k, special_int_fields) /\ ConvertsToInt(v)
      [] c = 10 -> TRUE

\* The formatting of category c for a value v that meets its condition
FormatAs(c, v) ==
    CASE c = 1 -> ""
      [] c = 2 -> FormatTimestamp(v, tz_offset).s
      [] c = 3 -> IF Len(v.s) = 10 THEN v.s
                  ELSE SubSeq(v.s, 1, 4) \o "-" \o SubSeq(v.s, 5, 6) \o "-"
                       \o SubSeq(v.s, 7, 8)
      [] c = 4 -> IF NonZero(ToFloat(v)) THEN Fixed2(ToFloat(v), FALSE) ELSE "0.00"
      [] c = 5 -> IF FloatGe(ToFloat(v), 10000) THEN Fixed2(ToFloat(v), TRUE)
                  ELSE IF NonZero(ToFloat(v)) THEN Fixed2(ToFloat(v), FALSE)
                  ELSE "0.00"
      [] c = 6 -> IF FloatToInt(ToFloat(v)).n >= 1000
                  THEN GroupedInt(FloatToInt(ToFloat(v)).n)
                  ELSE ToString(FloatToInt(ToFloat(v)).n)
      [] c = 7 -> Fixed2(ToFloat(v), FALSE) \o "%"
      [] c = 8 -> Fixed4(ToFloat(v))
      [] c = 9 -> ToString(FloatToInt(ToFloat(v)).n)
      [] c = 10 -> Str(v)

\* The first category whose condition k and v meet
FirstCategory(k, v) ==
    CHOOSE c \in Categories :
        Meets(c, k, v) /\ \A b \in 1..(c - 1) : ~Meets(b, k, v)

\* C16: what smart_format_value returns for a name and a value is the
\* formatting of the first category, in the order empty, timestamp, expiry
\* string, price, currency, quantity, percentage, Greek, special integer,
\* default, whose condition the name and the value meet.
C16_FirstCategoryWins ==
    (SmartFormatted /\ result.exc = "") =>
        result.s = FormatAs(FirstCategory(call.key, call.value), call.value)

\* A null value in a price field was formatted as empty, not as a price and
\* not by the default
C16_Witness ==
    /\ SmartFormatted
    /\ call.key = "ltp"
    /\ call.value = PyNone
    /\ FirstCategory(call.key, call.value) = 1
    /\ result = [exc |-> "", s |-> ""]

\* v is a finite number, an int or a float
FiniteNumber(v) ==
    \/ v.t = "int"
    \/ v.t = "float" /\ v.k = "fin"

\* C17: for a currency field and a finite number, smart_format_value returns
\* the number with 2 decimals, with thousands separators when its magnitude
\* is 10000 or more, whatever its sign, and without when it is less.
C17_CurrencySeparators ==
    (/\ SmartFormatted
     /\ Named(call.key, currency_fields)
     /\ FiniteNumber(call.value)) =>
        result = [exc |-> "",
                  s |-> Fixed2(ToFloat(call.value), ToFloat(call.value).w >= 10000)]

\* The integer a finite number truncates to, the fraction dropped
Truncated(v) ==
    IF v.t = "int" THEN v.n
    ELSE IF v.neg THEN -v.w ELSE v.w

\* The name k is a percentage field
PercentageName(k) ==
    \/ StrContains(StrLower(k), "percent")
    \/ EndsWith(StrLower(k), "_pct")
    \/ Named(k, percentage_fields)

\* C18: for a finite number, a quantity field gives the number truncated to
\* an integer, with thousands separators exactly when that integer is 1000
\* or more (1500 gives "1,500", 999 gives "999"); a price field gives "0.00"
\* for zero; a percentage field gives the number with 2 decimals and "%"
\* (12.5 gives "12.50%").
C18_QuantityPricePercent ==
    LET k == call.key
        v == call.value
    IN  (SmartFormatted /\ FiniteNumber(v)) =>
          /\ Named(k, quantity_fields) =>
                 /\ result.exc = ""
                 /\ result.s = IF Truncated(v) >= 1000 THEN GroupedInt(Truncated(v))
                               ELSE ToString(Truncated(v))
                 /\ v = PyInt(1500) => result.s = "1,500"
                 /\ v = PyInt(999) => result.s = "999"
                 /\ Truncated(v) < 1000 => \A i \in 1..Len(result.s) :
                                               SubSeq(result.s, i, i) # ","
          /\ (Named(k, price_fields) /\ v \in {PyInt(0), PyFloat(FALSE, 0, 0)}) =>
                 result = [exc |-> "", s |-> "0.00"]
          /\ PercentageName(k) =>
                 /\ result = [exc |-> "", s |-> Fixed2(ToFloat(v), FALSE) \o "%"]
                 /\ v = PyFloat(FALSE, 12, 5000) => result.s = "12.50%"

\* A quantity of 1500 was formatted with a thousands separator
C18_Witness ==
    /\ SmartFormatted
    /\ call.key = "quantity"
    /\ call.value = PyInt(1500)
    /\ result = [exc |-> "", s |-> "1,500"]

\* C19: smart_format_value leaves its own output as it is: for every name
\* and every value for which it returns a text, the function applied to the
\* same name and that text returns the same text.
C19_Idempotent ==
    (SmartFormatted /\ result.exc = "") =>
        smart_format_value(call.key, PyStr(result.s)) = result

\* C20: a call of process_api_response changes neither the response it is
\* given, nested values included, nor its other arguments, nor the preferred
\* format, nor OpenAlgoConfig (api_key, version, host_url, force_http), nor
\* DebugLog (request_count, last_request, last_response): it only returns
\* rows.
C20_OnlyRowsReturned ==
    [][call'.op = "process_api_response" =>
          /\ call'.response = call.response
          /\ call'.endpoint = call.endpoint
          /\ call'.custom_title = call.custom_title
          /\ preferred_format' = preferred_format
          /\ <<api_key, version, host_url, force_http>>'
                 = <<api_key, version, host_url, force_http>>
          /\ <<request_count, last_request, last_response>>'
                 = <<request_count, last_request, last_response>>]_vars

\* An array of two orders was unwrapped, formatted and sorted into a table,
\* and is still the array it was, with the log empty
C20_Witness ==
    /\ Formatted
    /\ call.endpoint = "http://127.0.0.1:5000/api/v1/orderbook"
    /\ call.response =
           PyDict(<<Item("data",
               PyList(<<PyDict(<<Item("orderid", PyStr("24012500001")),
                                 Item("quantity", PyInt(1500)),
                                 Item("timestamp", PyInt(1700000000))>>),
                        PyDict(<<Item("orderid", PyStr("24012500002")),
                                 Item("timestamp", PyInt(1700003600))>>)>>))>>)
    /\ result.exc = "" /\ Len(result.rows) = 3
    /\ result.rows[2][1] = "24012500002"
    /\ request_count = 0 /\ last_request = PyNone /\ last_response = PyNone

\* A body whose data is one object, as the server returns it
ObjectBody ==
    PyDict(<<Item("status", PyStr("success")),
             Item("data", PyDict(<<Item("symbol", PyStr("RELIANCE")),
                                   Item("ltp", PyFloat(FALSE, 2500, 4000)),
                                   Item("pnl_percent", PyFloat(FALSE, 3, 2560))>>))>>)

\* C21: process_api_response is a function of the response, the endpoint
\* name and the title alone: every call oa_intervals makes of it with
\* ObjectBody, endpoint name "intervals" and no title returns the rows it
\* returns in the initial state, whatever oa_api, oa_set_format and
\* oa_force_http calls ran before it.
C21_FunctionOfArguments ==
    (call.op = "oa_intervals" /\ call.sent /\ call.response = ObjectBody) =>
        result = RowsOk(<< <<"Intervals Data", "Value">>,
                           <<"Symbol", "RELIANCE">>,
                           <<"Last Trade Price", "2500.40">>,
                           <<"P&L %", "3.26%">> >>)

\* a stands before b in priority order: priority-list names first, in the
\* order of the list, then the other names by code point
Before(a, b) ==
    IF IsPriority(b) THEN IsPriority(a) /\ PriorityRank(a) < PriorityRank(b)
    ELSE IsPriority(a) \/ StrLess(a, b)

RECURSIVE WordsTitled(_, _)
\* s with the first letter of each space-separated word in upper case and
\* its other letters in lower case
WordsTitled(s, inWord) ==
    IF s = "" THEN ""
    ELSE (IF inWord THEN LowerChar(Head(s)) ELSE UpperChar(Head(s)))
         \o WordsTitled(Tail(s), Head(s) # " ")

\* The label of field f: the catalogue's when it has one, else the name with
\* underscores as spaces and each word title-cased
LabelOf(f) ==
    IF \E i \in 1..Len(field_labels.items) : field_labels.items[i].k = f
    THEN (CHOOSE it \in Range(field_labels.items) : it.k = f).v
    ELSE WordsTitled(StrReplace(f, "_", " "), FALSE)

\* C22: key-value output has, after the header, one row per field of the
\* object, the i-th being [label(f_i), smart_format_value(f_i, data[f_i])]
\* with f_i the i-th field in priority order; the quote of RELIANCE titled
\* "RELIANCE (NSE)" gives the four rows of the example.
C22_KeyValueRows ==
    /\ KeyValueOutput =>
           LET obj == KeyValueObject
               keys == {it.k : it \in Range(obj.items)}
               n == Cardinality(keys)
               f == CHOOSE p \in [1..n -> keys] :
                        \A i, j \in 1..n : i < j => Before(p[i], p[j])
           IN  /\ Len(result.rows) = n + 1
               /\ \A i \in 1..n :
                      result.rows[i + 1]
                          = <<LabelOf(f[i]), smart_format_value(f[i], FieldOf(obj, f[i])).s>>
    /\ ( /\ Formatted
         /\ call.response = PyDict(<<Item("data", PyDict(<<
                                Item("symbol", PyStr("RELIANCE")),
                                Item("ltp", PyFloat(FALSE, 2500, 4000)),
                                Item("pnl_percent", PyFloat(FALSE, 3, 2560))>>))>>)
         /\ call.endpoint = "http://127.0.0.1:5000/api/v1/quotes"
         /\ call.custom_title = "RELIANCE (NSE)" )
       => result = RowsOk(<< <<"RELIANCE (NSE)", "Value">>,
                             <<"Symbol", "RELIANCE">>,
                             <<"Last Trade Price", "2500.40">>,
                             <<"P&L %", "3.26%">> >>)

\* An object with a catalogued and two uncatalogued names, one of two words,
\* was formatted on an endpoint without a schema
C22_Witness ==
    /\ KeyValueOutput
    /\ call.endpoint = "http://127.0.0.1:5000/api/v1/ping"
    /\ call.custom_title = ""
    /\ result.rows = << <<"Ping Data", "Value">>,
                        <<"Last Trade Price", "5.00">>,
                        <<"Average Price", "0">>,
                        <<"Trade Note", "ok">> >>

\* What the API function of the call appended to host_url + "/api/" +
\* version + "/" to build its URL
NameSent == SubSeq(call.endpoint, Len(host_url) + Len(version) + 7, Len(call.endpoint))

\* The endpoint names that have a schema entry
SchemaNames == {"quotes", "funds", "orderbook", "tradebook", "positionbook", "holdings"}

\* C23 as stated: the endpoint name of every URL an API function builds is
\* its last path segment when that has a schema entry, and "unknown" when it
\* has none.
C23_Original ==
    (call.op \in ApiFunctions /\ call.sent) =>
        detect_endpoint_type(call.endpoint)
            = IF NameSent \in SchemaNames THEN NameSent ELSE "unknown"

\* C23, amended: the endpoint name of every URL an API function builds,
\* whatever the host, is its last path segment, with or without a schema
\* entry; a name without one is formatted with no schema under its own
\* name, so the default title of an intervals object is "Intervals Data".
C23_Amended ==
    (call.op \in ApiFunctions /\ call.sent) =>
        /\ \A i \in 1..Len(NameSent) : SubSeq(NameSent, i, i) # "/"
        /\ call.endpoint = host_url \o "/api/" \o version \o "/" \o NameSent
        /\ detect_endpoint_type(call.endpoint) = NameSent
        /\ NameSent \notin SchemaNames =>
               SchemaOf(detect_endpoint_type(call.endpoint)) = PyDict(<<>>)
        /\ (call.op = "oa_intervals" /\ call.response = ObjectBody
                /\ preferred_format # "table") =>
               result.rows[1] = <<"Intervals Data", "Value">>

\* oa_intervals, whose endpoint has no schema entry, was sent to the HTTPS
\* host and its object formatted under the name intervals
C23_Witness ==
    /\ call.op = "oa_intervals"
    /\ call.sent
    /\ call.endpoint = "https://oa.example.com/api/v1/intervals"
    /\ call.response = ObjectBody
    /\ result.rows[1] = <<"Intervals Data", "Value">>

\* s is made of spaces only (the empty string included)
Blank(s) == \A i \in 1..Len(s) : SubSeq(s, i, i) = " "

\* s neither starts nor ends with a space
NoSurroundingSpace(s) ==
    s = "" \/ (SubSeq(s, 1, 1) # " " /\ SubSeq(s, Len(s), Len(s)) # " ")

\* long is short with only the character c added at its end
OnlyTrailing(long, short, c) ==
    /\ Len(short) <= Len(long)
    /\ SubSeq(long, 1, Len(short)) = short
    /\ \A i \in (Len(short) + 1)..Len(long) : SubSeq(long, i, i) = c

\* C24: oa_api with an empty or blank key returns "Error: API Key is
\* required." and leaves api_key, version and host_url as they are; with
\* any other key it stores the key without its surrounding whitespace and
\* the host without its trailing '/'. The stored key never has surrounding
\* whitespace, and once a non-blank key is stored no operation makes the
\* stored key blank again.
C24_KeyAcceptance ==
    [][/\ NoSurroundingSpace(api_key) /\ NoSurroundingSpace(api_key')
       /\ ~KeyBlank => ~KeyBlank'
       /\ \A key \in ApiKeyInputs, ver \in VersionInputs, host \in HostInputs :
              oa_api(key, ver, host) =>
                  IF Blank(key)
                  THEN /\ result'.text = "Error: API Key is required."
                       /\ <<api_key, version, host_url>>' = <<api_key, version, host_url>>
                  ELSE /\ \E i, j \in 1..Len(key) :
                              /\ api_key' = SubSeq(key, i, j)
                              /\ Blank(SubSeq(key, 1, i - 1))
                              /\ Blank(SubSeq(key, j + 1, Len(key)))
                       /\ ~Blank(api_key')
                       /\ version' = ver
                       /\ OnlyTrailing(host, host_url', "/")
                       /\ host_url' = "" \/ SubSeq(host_url', Len(host_url'), Len(host_url')) # "/"
      ]_vars

\* A key given with surrounding spaces and a host given with a trailing '/'
\* were stored stripped, and a later call with a blank key was refused
C24_Witness ==
    /\ api_key = "k3y-9"
    /\ host_url = "https://oa.example.com"
    /\ call.op = "oa_api"
    /\ result.text = "Error: API Key is required."

\* The values the preference may take
ValidFormats == {"auto", "table", "key_value"}

\* C25: the preferred format is always one of auto, table and key_value:
\* oa_set_format with any other value returns an error message and leaves
\* the preference as it is, and with one of the three sets the preference
\* to exactly that value.
C25_PreferenceValid ==
    [][/\ preferred_format \in ValidFormats
       /\ preferred_format' \in ValidFormats
       /\ \A f \in FormatInputs :
              oa_set_format(f) =>
                  IF f \in ValidFormats
                  THEN preferred_format' = f
                  ELSE /\ preferred_format' = preferred_format
                       /\ SubSeq(result'.text, 1, 6) = "Error:"
      ]_vars

\* The preference was set to key_value and a later call with an unknown
\* value was refused
C25_Witness ==
    /\ preferred_format = "key_value"
    /\ call.op = "oa_set_format"
    /\ result.text = "Error: format_type must be one of ['auto', 'table', 'key_value']"

\* C30: whatever the payload and the endpoint are, process_api_response
\* resolves the format to key_value or table in every state the
\* configuration functions lead to, so its last branch, the generic
\* converter format_for_excel, is never taken.
C30_NeverGenericConverter ==
    \A name \in SchemaNames \cup {"intervals", "history", "unknown"} :
        \A data \in {PyDict(<<Item("symbol", PyStr("INFY"))>>), PyList(<<>>),
                     PyList(<<PyInt(5)>>), PyStr("ok"), PyInt(5)} :
            FormatType(data, name) \in {"key_value", "table"}

\* With the preference set to table, oa_intervals had an object formatted
\* on its endpoint, which has no schema: it went to the table formatter
C30_Witness ==
    /\ preferred_format = "table"
    /\ call.op = "oa_intervals"
    /\ call.sent
    /\ call.response = ObjectBody
    /\ result = RowsOk(<< <<"Expected list data for table format">> >>)

\* C26: a request whose configured endpoint starts with https:// is sent to
\* an http:// URL if and only if forced HTTP mode is enabled: with the mode
\* enabled every connection attempt targets an http:// URL, and with the
\* mode disabled every attempt targets the HTTPS endpoint as configured.
C26_HttpOnlyWhenForced ==
    (call.op \in ApiFunctions /\ call.sent /\ SubSeq(call.endpoint, 1, 8) = "https://") =>
        IF force_http
        THEN \A i \in 1..Len(posts) : SubSeq(posts[i], 1, 7) = "http://"
        ELSE \A i \in 1..Len(posts) : posts[i] = call.endpoint

\* The http:// form of an https:// URL
HttpForm(url) == "http://" \o SubSeq(url, 9, Len(url))

\* C27: post_request_with_fallback makes at most two connection attempts
\* whatever the transport does: a second one only after a first to an
\* https:// URL, and then to the http:// form of that URL; when the second
\* fails, its exception is the one raised; and {"error": "All connection
\* attempts failed"} is never returned.
C27_AtMostTwoAttempts ==
    /\ (call.op \in ApiFunctions /\ call.sent) =>
           /\ Len(posts) \in {1, 2}
           /\ Len(posts) = 2 =>
                  /\ SubSeq(posts[1], 1, 8) = "https://"
                  /\ posts[2] = HttpForm(posts[1])
           /\ call.response
                  # PyDict(<<Item("error", PyStr("All connection attempts failed"))>>)
    /\ \A pair \in PairsFor("funds") :
           LET fb == post_request_with_fallback(normalize_url(EndpointOf("funds")), pair, 1)
           IN  /\ Len(fb.attempts) \in {1, 2}
               /\ (Len(fb.attempts) = 2 /\ pair[2].kind # "ok") => fb.raised = pair[2]
               /\ (Len(fb.attempts) = 2 /\ pair[2].kind = "ok") => fb.ret = pair[2].body
               /\ fb.ret # PyDict(<<Item("error", PyStr("All connection attempts failed"))>>)

\* The first attempt, to the HTTPS URL, failed and so did the second, to its
\* http:// form: the second's error was returned and nothing more was tried
C27_Witness ==
    /\ call.op = "oa_funds"
    /\ call.sent
    /\ posts = <<"https://oa.example.com/api/v1/funds", "http://oa.example.com/api/v1/funds">>
    /\ call.response = PyDict(<<Item("error",
                                     PyStr("URL Error: [Errno 111] Connection refused"))>>)

\* The record rec of the debug log carries the request id n
HasId(rec, n) ==
    /\ rec.t = "dict"
    /\ HasField(rec, "request_id")
    /\ FieldOf(rec, "request_id") = PyInt(n)

\* C28: request_count is the number of post_request calls started: it is 0
\* at the start, each call adds one and nothing else changes it, so it
\* never decreases. Once a call has returned, by success or by any error
\* branch, last_request and last_response both carry request_count as
\* their request id, and oa_debug_full_log shows that id for both.
C28_CountAndIds ==
    [][/\ call.op = "start" => request_count = 0
       /\ request_count' >= request_count
       /\ request_count' = request_count + (IF call'.op = "post_request" THEN 1 ELSE 0)
       /\ request_count' > 0 =>
              /\ HasId(last_request', request_count')
              /\ HasId(last_response', request_count')
       /\ (call'.op = "oa_debug_full_log" /\ request_count' > 0) =>
              /\ result'.rows[4] = <<"Request ID", ToString(request_count')>>
              /\ \E i \in 1..Len(result'.rows) :
                     result'.rows[i] = <<"Response ID", ToString(request_count')>>
      ]_vars

\* After a request that succeeded and two that failed, the full log shows
\* the third request with the error it ended in
C28_Witness ==
    /\ request_count = 3
    /\ call.op = "oa_debug_full_log"
    /\ result.rows[4] = <<"Request ID", "3">>
    /\ \E i \in 1..Len(result.rows) : result.rows[i] = <<"Response ID", "3">>
    /\ \E i \in 1..Len(result.rows) : result.rows[i] = <<"Error", "timed out">>

\* The text has part as a substring
Shows(text, part) ==
    \E i \in 1..(Len(text) - Len(part) + 1) : SubSeq(text, i, i + Len(part) - 1) = part

\* C29: whatever key oa_api accepted, of 1 to 4 characters or longer, no
\* cell of the rows returned by oa_get_config, oa_debug_last_request and
\* oa_debug_full_log shows the complete key.
C29_KeyNeverShownWhole ==
    (call.op \in {"oa_get_config", "oa_debug_last_request", "oa_debug_full_log"}
        /\ api_key # "") =>
        \A i \in 1..Len(result.rows) : \A j \in 1..Len(result.rows[i]) :
            ~Shows(result.rows[i][j], api_key)
====
